---- MODULE Spec2Model ----
(***************************************************************************)
(* Model of the tracked-comment store (storage-service.ts), the comment    *)
(* cache (comment-service.ts), the crawl engine (crawler-service.ts), the  *)
(* unread accounter (background.ts) and the command handlers              *)
(* (message-handler.ts) of GaruchanResChecker.                             *)
(*                                                                         *)
(* Execution model: one JavaScript thread.  Every `await` on storage, on   *)
(* the network or on a timer is a suspension point.  A process sits at a   *)
(* label that names the operation it awaits; one action of the model is    *)
(* "the awaited operation completes (its effect on storage happens) and    *)
(* the continuation runs synchronously up to the next await".              *)
(***************************************************************************)
EXTENDS Integers, Sequences, FiniteSets, TLC

(* ------------------------------ bounds -------------------------------- *)
\* number of clock ticks the model lets pass
MaxTicks == 1
\* operations (commands, crawl cycles, direct puts) started in one behaviour
MaxOps == 3
\* largest remote reply count the fetch capability reports
MaxCount == 2
\* largest unreadCount carried by an upsert payload
MaxUpsertUnread == 1

(* -------------------------- program constants ------------------------- *)
\* OPTIMISTIC_LOCK.MAX_RETRIES
MAX_RETRIES == 3
\* OPTIMISTIC_LOCK.INITIAL_BACKOFF_MS
INITIAL_BACKOFF_MS == 100
\* CRAWLER_CONFIG.SKIP_AFTER_DAYS (the model's clock unit is one day)
SKIP_AFTER_DAYS == 31
\* CRAWLER_CONFIG.ACTIVE_DELAY_MS
ACTIVE_DELAY_MS == 3000
\* CRAWLER_CONFIG.IDLE_DELAY_MS
IDLE_DELAY_MS == 60000
\* COMMENT_ENTRY_CONFIG.MAX_ENTRIES, scaled from 1000 to the model's key space
MAX_ENTRIES == 2

\* null / undefined / '' of a number-or-timestamp valued field
NULL == -1
\* undefined CommentEntry (storage.getItem miss, Map.get miss, saveComment null)
NoEntry == [absent |-> TRUE]

TopicIds == {"1", "2"}
\* the (topicId, commentNumber) pairs the commands of the large specifications name
CmdKeys == {<<"1", "1">>, <<"1", "2">>, <<"2", "1">>}
\* the (topicId, commentNumber) pairs the model tracks
Keys == CmdKeys \cup {<<"2", "2">>}
Procs == {"cmd", "crawl"}

\* the clock starts late enough for a postedAt SKIP_AFTER_DAYS in the past
StartTime == SKIP_AFTER_DAYS
Times == StartTime .. (StartTime + MaxTicks)

Max(a, b) == IF a >= b THEN a ELSE b

RECURSIVE Pow2(_)
Pow2(n) == IF n = 0 THEN 1 ELSE 2 * Pow2(n - 1)

(* ------------------------------ entries ------------------------------- *)
\* CommentEntry; title, body and createdAt are display data no operation reads
MkEntry(k, posted, res, unread, upd, ver) ==
  [topicId |-> k[1], commentNumber |-> k[2], postedAt |-> posted,
   resCount |-> res, unreadCount |-> unread, updatedAt |-> upd, version |-> ver]

getCommentKey(e) == <<e.topicId, e.commentNumber>>

(* ------------------- storage-service.ts: the put ---------------------- *)
\* the mutant compares the other way round
IsStale_mut(current, entry) ==
  /\ current # NoEntry
  /\ current.updatedAt # NULL
  /\ entry.updatedAt # NULL
  /\ current.updatedAt < entry.updatedAt

\* lines 101-106: reject when the persisted updatedAt is strictly later
IsStale(current, entry) ==
  /\ current # NoEntry
  /\ current.updatedAt # NULL
  /\ entry.updatedAt # NULL
  /\ current.updatedAt > entry.updatedAt

\* the mutant keeps the version it read
NewVersion_mut(current) ==
  IF current = NoEntry \/ current.version = NULL THEN 1 ELSE current.version

\* lines 117-118: current?.version ?? 0, plus one
NewVersion(current) ==
  (IF current = NoEntry \/ current.version = NULL THEN 0 ELSE current.version) + 1

\* the mutant keeps the caller's updatedAt
ToSave_mut(entry, current, t) ==
  [entry EXCEPT !.version = NewVersion(current)]

\* the mutant adds the unread count it found to the one it writes
ToSave_sum(entry, current, t) ==
  [entry EXCEPT !.version = NewVersion(current), !.updatedAt = t,
                !.unreadCount = IF current = NoEntry THEN @ ELSE @ + current.unreadCount]

\* line 119: { ...entry, version: newVersion, updatedAt: new Date().toISOString() }
ToSave(entry, current, t) ==
  [entry EXCEPT !.version = NewVersion(current), !.updatedAt = t]

\* the mutant doubles from 2 * INITIAL_BACKOFF_MS
Backoff_mut(attempt) == INITIAL_BACKOFF_MS * Pow2(attempt + 1)

\* line 130: INITIAL_BACKOFF_MS * Math.pow(2, attempt)
Backoff(attempt) == INITIAL_BACKOFF_MS * Pow2(attempt)

(* ------------------- comment-service.ts: the cache -------------------- *)
\* position of key k in the Map's insertion order, 0 when absent
CacheIndex(c, k) ==
  IF \E i \in 1 .. Len(c) : getCommentKey(c[i]) = k
  THEN CHOOSE i \in 1 .. Len(c) : getCommentKey(c[i]) = k
  ELSE 0

\* commentCache.get(key)
CacheGet(c, k) == IF CacheIndex(c, k) = 0 THEN NoEntry ELSE c[CacheIndex(c, k)]

\* commentCache.set(key, e): an existing key keeps its position, a new one goes last
CacheSet(c, k, e) ==
  IF CacheIndex(c, k) = 0 THEN Append(c, e) ELSE [c EXCEPT ![CacheIndex(c, k)] = e]

\* commentCache.delete(key)
CacheDelete(c, k) == SelectSeq(c, LAMBDA e : getCommentKey(e) # k)

\* reduce((sum, c) => sum + (Number(c.unreadCount) || 0), 0)
RECURSIVE SumUnread(_)
SumUnread(c) ==
  IF c = <<>> THEN 0
  ELSE (IF Head(c).unreadCount = NULL THEN 0 ELSE Head(c).unreadCount) + SumUnread(Tail(c))

\* Array.prototype.sort with (a, b) => timeA - timeB is stable: insertion after equals
RECURSIVE InsertByUpdatedAt(_, _)
InsertByUpdatedAt(sorted, e) ==
  IF sorted = <<>> THEN <<e>>
  ELSE IF Head(sorted).updatedAt <= e.updatedAt
       THEN <<Head(sorted)>> \o InsertByUpdatedAt(Tail(sorted), e)
       ELSE <<e>> \o sorted

RECURSIVE SortByUpdatedAt(_)
SortByUpdatedAt(c) ==
  IF c = <<>> THEN <<>>
  ELSE InsertByUpdatedAt(SortByUpdatedAt(SubSeq(c, 1, Len(c) - 1)), c[Len(c)])

\* enforceMaxEntries: the keys of the deleteCount oldest entries, oldest first
ToDelete(c) ==
  IF Len(c) <= MAX_ENTRIES THEN <<>>
  ELSE [i \in 1 .. (Len(c) - MAX_ENTRIES) |-> getCommentKey(SortByUpdatedAt(c)[i])]

(* ------------------- crawler-service.ts: the arithmetic ---------------- *)
\* the mutant counts only the replies gained now, dropping the unread kept so far
NewUnread_noacc(prev, cur) == Max(0, cur - prev.resCount)

\* the mutant forgets the clamp
NewUnread_mut(prev, cur) == cur - prev.resCount + prev.unreadCount

\* lines 224-225: max(0, currentResCount - previousResCount + previousUnread)
NewUnread(prev, cur) == Max(0, cur - prev.resCount + prev.unreadCount)

\* the mutant skips only entries strictly older than the threshold
IsTooOld_mut(e, t) == e.postedAt # NULL /\ t - e.postedAt > SKIP_AFTER_DAYS

\* lines 199-204: postedAt set and elapsedDays >= SKIP_AFTER_DAYS
IsTooOld(e, t) == e.postedAt # NULL /\ t - e.postedAt >= SKIP_AFTER_DAYS

(* ------------------------------- state -------------------------------- *)
VARIABLES
  store,           \* browser.storage.local: the persisted comment:<topic>:<number> records
  commentCache,    \* comment-service.ts: the Map, as a sequence in insertion order
  unreadTotal,     \* storage key UNREAD_TOTAL
  crawlerEnabled,  \* storage key CRAWLER_ENABLED
  isCrawling,      \* crawler-service.ts: the double-start flag
  now,             \* the wall clock
  loc,             \* per call site: the awaited operation and the locals of the async frames
  ops,             \* operations started so far
  evictions,       \* history: entries deleted by enforceMaxEntries so far
  acc,             \* history, per key: the counts the last command wrote, and whether a
                   \* crawl visit has since passed without a fetched count
  dropped          \* history, per key: what the last crawl visit computed when its save
                   \* failed, until the cache entry of the key is next set or deleted

vars == <<store, commentCache, unreadTotal, crawlerEnabled, isCrawling, now, loc, ops, evictions,
          acc, dropped>>

NoKey == <<"", "">>

\* no command has written the key, or a crawl has seen its remote count fall
NoAcc == [none |-> TRUE]

\* the last crawl visit of the key did not fail in its save
NoDrop == [none |-> TRUE]

\* a call site with nothing in flight; `before` is history: the total stored when the
\* command in flight was received
Idle ==
  [pc |-> "idle", op |-> "none", key |-> NoKey, entry |-> NoEntry,
   current |-> NoEntry, toSave |-> NoEntry, attempt |-> 0, maxRetries |-> 0,
   backoffs |-> <<>>, lastPut |-> "none", lastFetch |-> "none", adjDelta |-> 0, adjCur |-> 0,
   prev |-> NoEntry, fetched |-> NULL, delta |-> 0, list |-> <<>>, idx |-> 0,
   updatedCount |-> 0, targets |-> <<>>, totalUnread |-> 0, saved |-> NoEntry,
   resp |-> "none", count |-> 0, slept |-> 0, badge |-> "none", refresh |-> "none",
   before |-> 0]

Init ==
  /\ store = [k \in Keys |-> NoEntry]
  /\ commentCache = <<>>
  /\ unreadTotal = 0
  /\ crawlerEnabled = TRUE
  /\ isCrawling = FALSE
  /\ now = StartTime
  /\ loc = [p \in Procs |-> Idle]
  /\ ops = 0
  /\ evictions = 0
  /\ acc = [k \in Keys |-> NoAcc]
  /\ dropped = [k \in Keys |-> NoDrop]

\* time passes while the processes are suspended
Tick ==
  /\ now < StartTime + MaxTicks
  /\ now' = now + 1
  /\ UNCHANGED <<store, commentCache, unreadTotal, crawlerEnabled, isCrawling, loc, ops, evictions, acc, dropped>>

(* --------------------- continuations (local, pure) -------------------- *)
\* a handler returns its response; its frame is gone
Finish(l, r) == [Idle EXCEPT !.resp = r]

\* the frame of the poll loop while it awaits something other than a crawl cycle
LoopAt(pc) == [Idle EXCEPT !.op = "loop", !.pc = pc]

\* saveCommentWithOptimisticLock is entered: attempt = 0, storage.getItem is awaited
BeginPut(l, e, m) ==
  [l EXCEPT !.pc = "put_get", !.entry = e, !.attempt = 0, !.maxRetries = m,
            !.backoffs = <<>>, !.lastPut = "none", !.current = NoEntry, !.toSave = NoEntry]

\* a finally block without the delay: the flag is re-read at once
CrawlSleep_mut(l) ==
  [l EXCEPT !.pc = "c_enabled2", !.entry = NoEntry, !.current = NoEntry, !.toSave = NoEntry,
            !.attempt = 0, !.maxRetries = 0, !.backoffs = <<>>,
            !.adjDelta = 0, !.adjCur = 0, !.prev = NoEntry, !.fetched = NULL, !.delta = 0,
            !.badge = "none", !.refresh = "none"]

\* crawlCommentsOnce: the finally block of one entry, sleep(ACTIVE_DELAY_MS) is awaited
CrawlSleep(l) ==
  [l EXCEPT !.pc = "c_sleep", !.entry = NoEntry, !.current = NoEntry, !.toSave = NoEntry,
            !.attempt = 0, !.maxRetries = 0, !.backoffs = <<>>,
            !.adjDelta = 0, !.adjCur = 0, !.prev = NoEntry, !.fetched = NULL, !.delta = 0,
            !.badge = "none", !.refresh = "none"]

\* what the caller of adjustUnread does when it returns
AfterAdjust(l) ==
  CASE l.op \in {"upsert", "clear"} -> BeginPut(l, l.entry, MAX_RETRIES)
    [] l.op = "remove" -> [l EXCEPT !.pc = "del"]
    [] l.op = "removeTopic" -> [Finish(l, "ok") EXCEPT !.count = l.count]
    [] l.op = "crawl" -> CrawlSleep([l EXCEPT !.updatedCount = @ + 1])
    [] l.op = "adjust" -> [Finish(l, "ok") EXCEPT !.badge = l.badge, !.refresh = l.refresh]

\* adjustUnread(d): `if (!delta) return`, else getUnreadTotal is awaited
CallAdjust(l, d) ==
  IF d = 0 THEN AfterAdjust(l) ELSE [l EXCEPT !.pc = "adj_get", !.adjDelta = d]

\* the mutant adjusts the total whether or not the save returned an entry
AfterSave_mut(l, saved) ==
  CASE l.op \in {"upsert", "clear"} -> Finish(l, IF saved # NoEntry THEN "ok" ELSE "fail")
    [] l.op = "crawl" ->
         IF l.delta # 0 THEN CallAdjust(l, l.delta)
         ELSE CrawlSleep([l EXCEPT !.updatedCount = @ + 1])

\* a continuation after saveComment that gives up the accounting of a crawled entry when
\* the enabled flag has been switched off meanwhile
AfterSave_stop(l, saved) ==
  CASE l.op \in {"upsert", "clear"} -> Finish(l, IF saved # NoEntry THEN "ok" ELSE "fail")
    [] l.op = "crawl" ->
         IF saved # NoEntry /\ crawlerEnabled
         THEN IF l.delta # 0 THEN CallAdjust(l, l.delta)
              ELSE CrawlSleep([l EXCEPT !.updatedCount = @ + 1])
         ELSE CrawlSleep(l)

\* what the caller of saveComment does with its result
AfterSave(l, saved) ==
  CASE l.op \in {"upsert", "clear"} -> Finish(l, IF saved # NoEntry THEN "ok" ELSE "fail")
    [] l.op = "crawl" ->
         IF saved # NoEntry
         THEN IF l.delta # 0 THEN CallAdjust(l, l.delta)
              ELSE CrawlSleep([l EXCEPT !.updatedCount = @ + 1])
         ELSE CrawlSleep(l)

\* saveCommentWithOptimisticLock returns to its caller: true, or false because the
\* entry was stale or because every attempt failed
AfterPut(l, res) ==
  IF l.op = "put"
  THEN [Idle EXCEPT !.resp = IF res = "true" THEN "ok" ELSE "fail", !.lastPut = res]
  ELSE IF l.op = "twice"
  THEN IF l.idx = 0
       THEN [BeginPut(l, l.entry, l.maxRetries) EXCEPT !.idx = 1, !.resp = res]
       ELSE [Idle EXCEPT !.resp = IF res = "true" THEN "ok" ELSE "fail", !.lastPut = res]
  ELSE IF res = "true" THEN [l EXCEPT !.pc = "save_get", !.lastPut = "true"]
       ELSE AfterSave([l EXCEPT !.lastPut = res], NoEntry)

\* the catch block of one attempt
PutCatch(l) ==
  IF l.attempt < l.maxRetries - 1
  THEN [l EXCEPT !.pc = "put_sleep", !.backoffs = Append(@, Backoff(l.attempt)),
                 !.current = NoEntry, !.toSave = NoEntry]
  ELSE AfterPut([l EXCEPT !.current = NoEntry, !.toSave = NoEntry], "exhausted")

\* history: a crawl visit (frame l) ends in l2 without its save; what it had fetched and
\* computed is remembered for the key
DropIfLost(l, l2) ==
  IF l.op = "crawl" /\ l2.pc = "c_sleep"
  THEN [dropped EXCEPT ![getCommentKey(l.entry)] =
         [resCount |-> l.fetched, unreadCount |-> l.entry.unreadCount, delta |-> l.delta]]
  ELSE dropped

(* -------------- saveCommentWithOptimisticLock, step by step ------------ *)
\* storage.getItem resolves; the freshness check; the record to write is built
PutGet(p) ==
  /\ loc[p].pc = "put_get"
  /\ LET l == loc[p]
         cur == store[getCommentKey(l.entry)]
     IN loc' = [loc EXCEPT ![p] =
                 IF IsStale(cur, l.entry) THEN AfterPut(l, "stale")
                 ELSE [l EXCEPT !.pc = "put_set", !.current = cur,
                                !.toSave = ToSave(l.entry, cur, now)]]
  /\ UNCHANGED <<store, commentCache, unreadTotal, crawlerEnabled, isCrawling, now, ops, evictions, acc, dropped>>

\* storage.getItem rejects
PutGetFail(p) ==
  /\ loc[p].pc = "put_get"
  /\ loc' = [loc EXCEPT ![p] = PutCatch(loc[p])]
  /\ dropped' = DropIfLost(loc[p], PutCatch(loc[p]))
  /\ UNCHANGED <<store, commentCache, unreadTotal, crawlerEnabled, isCrawling, now, ops, evictions, acc>>

\* storage.setItem resolves: the record is persisted, the put returns true
PutSet(p) ==
  /\ loc[p].pc = "put_set"
  /\ store' = [store EXCEPT ![getCommentKey(loc[p].entry)] = loc[p].toSave]
  /\ loc' = [loc EXCEPT ![p] = AfterPut(loc[p], "true")]
  /\ acc' = IF loc[p].op \in {"upsert", "clear"}
            THEN [acc EXCEPT ![getCommentKey(loc[p].entry)] =
                   [r0 |-> loc[p].toSave.resCount, u0 |-> loc[p].toSave.unreadCount,
                    missed |-> FALSE]]
            ELSE acc
  /\ UNCHANGED <<commentCache, unreadTotal, crawlerEnabled, isCrawling, now, ops, evictions, dropped>>

\* a failed write that has already put the new record into the cache
PutSetFail_mut(p) ==
  /\ loc[p].pc = "put_set"
  /\ loc' = [loc EXCEPT ![p] = PutCatch(loc[p])]
  /\ commentCache' = CacheSet(commentCache, getCommentKey(loc[p].entry), loc[p].toSave)
  /\ dropped' = DropIfLost(loc[p], PutCatch(loc[p]))
  /\ UNCHANGED <<store, unreadTotal, crawlerEnabled, isCrawling, now, ops, evictions, acc>>

\* storage.setItem rejects
PutSetFail(p) ==
  /\ loc[p].pc = "put_set"
  /\ loc' = [loc EXCEPT ![p] = PutCatch(loc[p])]
  /\ dropped' = DropIfLost(loc[p], PutCatch(loc[p]))
  /\ UNCHANGED <<store, commentCache, unreadTotal, crawlerEnabled, isCrawling, now, ops, evictions, acc>>

\* the backoff sleep ends; attempt++ and the next storage.getItem is awaited
PutSleep(p) ==
  /\ loc[p].pc = "put_sleep"
  /\ loc' = [loc EXCEPT ![p] = [loc[p] EXCEPT !.pc = "put_get", !.attempt = @ + 1]]
  /\ UNCHANGED <<store, commentCache, unreadTotal, crawlerEnabled, isCrawling, now, ops, evictions, acc, dropped>>

(* ------------- the store's operations called on their own -------------- *)
\* entries a caller of the exported put can pass
PutInputs ==
  {MkEntry(<<"1", "1">>, NULL, c[1], c[2], t, NULL) :
     c \in {<<0, 0>>, <<MaxCount, MaxUpsertUnread>>}, t \in Times \cup {NULL}}

\* saveCommentWithOptimisticLock(entry, maxRetries) is called
CallPut(p) ==
  /\ loc[p].pc = "idle"
  /\ ops < MaxOps
  /\ \E e \in PutInputs, m \in {1, MAX_RETRIES} :
       loc' = [loc EXCEPT ![p] = BeginPut([Idle EXCEPT !.op = "put"], e, m)]
  /\ ops' = ops + 1
  /\ UNCHANGED <<store, commentCache, unreadTotal, crawlerEnabled, isCrawling, now, evictions, acc, dropped>>

\* deleteCommentFromStorage(topicId, commentNumber) is called; storage.removeItem is awaited
CallStoreDelete(p) ==
  /\ loc[p].pc = "idle"
  /\ ops < MaxOps
  /\ \E k \in {<<"1", "1">>} :
       loc' = [loc EXCEPT ![p] = [Idle EXCEPT !.op = "delete", !.pc = "raw_del", !.key = k]]
  /\ ops' = ops + 1
  /\ UNCHANGED <<store, commentCache, unreadTotal, crawlerEnabled, isCrawling, now, evictions, acc, dropped>>

\* storage.removeItem resolves
StoreDelete(p) ==
  /\ loc[p].pc = "raw_del"
  /\ store' = [store EXCEPT ![loc[p].key] = NoEntry]
  /\ loc' = [loc EXCEPT ![p] = Finish(loc[p], "ok")]
  /\ acc' = [acc EXCEPT ![loc[p].key] = NoAcc]
  /\ UNCHANGED <<commentCache, unreadTotal, crawlerEnabled, isCrawling, now, ops, evictions, dropped>>

\* entries a caller passes twice; the timestamp may be older than a persisted one
TwiceInputs ==
  {MkEntry(<<"1", "1">>, NULL, c[1], c[2], t, NULL) :
     c \in {<<0, 0>>, <<MaxCount, MaxUpsertUnread>>}, t \in {StartTime - 1, StartTime, NULL}}

\* saveCommentWithOptimisticLock(entry) is called by a caller that calls it again with
\* the same entry as soon as it has returned
CallPutTwice(p) ==
  /\ loc[p].pc = "idle"
  /\ ops < MaxOps
  /\ \E e \in TwiceInputs :
       loc' = [loc EXCEPT ![p] = BeginPut([Idle EXCEPT !.op = "twice"], e, MAX_RETRIES)]
  /\ ops' = ops + 1
  /\ UNCHANGED <<store, commentCache, unreadTotal, crawlerEnabled, isCrawling, now, evictions, acc, dropped>>

\* the key is absent or holds a record of an earlier session
InitTwice ==
  /\ \E v \in {NoEntry} \cup {MkEntry(<<"1", "1">>, NULL, 1, 1, t, 1) : t \in {StartTime - 1, StartTime}} :
       store = [k \in Keys |-> IF k = <<"1", "1">> THEN v ELSE NoEntry]
  /\ commentCache = <<>>
  /\ unreadTotal = 0
  /\ crawlerEnabled = TRUE
  /\ isCrawling = FALSE
  /\ now = StartTime
  /\ loc = [p \in Procs |-> Idle]
  /\ ops = 0
  /\ evictions = 0
  /\ acc = [k \in Keys |-> NoAcc]
  /\ dropped = [k \in Keys |-> NoDrop]

\* pairs of puts, one pair at a time, while time passes
NextTwice ==
  \/ Tick
  \/ CallPutTwice("cmd")
  \/ PutGet("cmd")
  \/ PutSet("cmd")

SpecTwice == InitTwice /\ [][NextTwice]_vars

(* ------------------- background.ts: the unread total ------------------- *)
\* the mutant forgets the clamp of setUnreadTotal
NextTotal_mut(cur, delta) == cur + delta

\* the mutant stores the delta in place of the sum
NextTotal_set(cur, delta) == Max(0, delta)

\* setUnreadTotal(cur + delta): Math.max(0, Math.floor(value))
NextTotal(cur, delta) == Max(0, cur + delta)

\* adjustUnread: getUnreadTotal resolves
AdjGet(p) ==
  /\ loc[p].pc = "adj_get"
  /\ loc' = [loc EXCEPT ![p] = [loc[p] EXCEPT !.pc = "adj_set", !.adjCur = unreadTotal]]
  /\ UNCHANGED <<store, commentCache, unreadTotal, crawlerEnabled, isCrawling, now, ops, evictions, acc, dropped>>

\* the mutant raises a failed badge update: the total is put back and the call fails
AdjSetWith_mut(p, badgeOk, sendOk) ==
  /\ loc[p].pc = "adj_set"
  /\ unreadTotal' = IF badgeOk THEN NextTotal(loc[p].adjCur, loc[p].adjDelta) ELSE unreadTotal
  /\ loc' = [loc EXCEPT ![p] =
              IF badgeOk
              THEN AfterAdjust([loc[p] EXCEPT !.adjCur = 0, !.adjDelta = 0, !.badge = "set",
                                              !.refresh = IF sendOk THEN "sent" ELSE "failed"])
              ELSE [Finish(loc[p], "error") EXCEPT !.badge = "failed"]]
  /\ UNCHANGED <<store, commentCache, crawlerEnabled, isCrawling, now, ops, evictions, acc, dropped>>

\* adjustUnread: setUnreadTotal stores the total, then renders the badge (badgeOk: the
\* browser accepted it) and sends the refresh message to the popup (sendOk: a popup
\* received it); both are attempted whatever the other did, and neither failure is
\* raised
AdjSetWith(p, badgeOk, sendOk) ==
  /\ loc[p].pc = "adj_set"
  /\ unreadTotal' = NextTotal(loc[p].adjCur, loc[p].adjDelta)
  /\ loc' = [loc EXCEPT ![p] =
              AfterAdjust([loc[p] EXCEPT !.adjCur = 0, !.adjDelta = 0,
                                         !.badge = IF badgeOk THEN "set" ELSE "failed",
                                         !.refresh = IF sendOk THEN "sent" ELSE "failed"])]
  /\ UNCHANGED <<store, commentCache, crawlerEnabled, isCrawling, now, ops, evictions, acc, dropped>>

\* adjustUnread: setUnreadTotal completes with the badge rendered and the refresh sent
AdjSet(p) == AdjSetWith(p, TRUE, TRUE)

(* ---------------- comment-service.ts: save and delete ------------------ *)
\* the mutant caches the argument of saveComment instead of the record it re-read
SaveGet_mut(p) ==
  /\ loc[p].pc = "save_get"
  /\ LET l == loc[p]
         k == getCommentKey(l.entry)
         updatedEntry == store[k]
         c2 == IF updatedEntry # NoEntry THEN CacheSet(commentCache, k, l.entry)
               ELSE commentCache
         del == ToDelete(c2)
     IN /\ commentCache' = c2
        /\ loc' = [loc EXCEPT ![p] =
                    IF del = <<>> THEN AfterSave(l, updatedEntry)
                    ELSE [l EXCEPT !.pc = "evict_del", !.targets = del, !.saved = updatedEntry]]
        /\ dropped' = IF updatedEntry # NoEntry THEN [dropped EXCEPT ![k] = NoDrop] ELSE dropped
  /\ UNCHANGED <<store, unreadTotal, crawlerEnabled, isCrawling, now, ops, evictions, acc>>

\* saveComment after the put: the record is re-read, cached, and the cap enforced
SaveGet(p) ==
  /\ loc[p].pc = "save_get"
  /\ LET l == loc[p]
         k == getCommentKey(l.entry)
         updatedEntry == store[k]
         c2 == IF updatedEntry # NoEntry THEN CacheSet(commentCache, k, updatedEntry)
               ELSE commentCache
         del == ToDelete(c2)
     IN /\ commentCache' = c2
        /\ loc' = [loc EXCEPT ![p] =
                    IF del = <<>> THEN AfterSave(l, updatedEntry)
                    ELSE [l EXCEPT !.pc = "evict_del", !.targets = del, !.saved = updatedEntry]]
        /\ dropped' = IF updatedEntry # NoEntry THEN [dropped EXCEPT ![k] = NoDrop] ELSE dropped
  /\ UNCHANGED <<store, unreadTotal, crawlerEnabled, isCrawling, now, ops, evictions, acc>>

\* enforceMaxEntries: deleteComment of the next oldest entry completes
EvictDel(p) ==
  /\ loc[p].pc = "evict_del"
  /\ LET l == loc[p]
         k == Head(l.targets)
     IN /\ store' = [store EXCEPT ![k] = NoEntry]
        /\ commentCache' = CacheDelete(commentCache, k)
        /\ loc' = [loc EXCEPT ![p] =
                    IF Tail(l.targets) = <<>>
                    THEN AfterSave([l EXCEPT !.targets = <<>>, !.saved = NoEntry], l.saved)
                    ELSE [l EXCEPT !.targets = Tail(@)]]
  /\ evictions' = evictions + 1
  /\ acc' = [acc EXCEPT ![Head(loc[p].targets)] = NoAcc]
  /\ dropped' = [dropped EXCEPT ![Head(loc[p].targets)] = NoDrop]
  /\ UNCHANGED <<unreadTotal, crawlerEnabled, isCrawling, now, ops>>

\* deleteComment called by remove-comment / remove-topic completes
Del(p) ==
  /\ loc[p].pc = "del"
  /\ LET l == loc[p]
     IN /\ store' = [store EXCEPT ![l.key] = NoEntry]
        /\ commentCache' = CacheDelete(commentCache, l.key)
        /\ loc' = [loc EXCEPT ![p] =
                    IF l.op = "remove" THEN Finish(l, "ok")
                    ELSE IF Len(l.targets) > 1
                         THEN [l EXCEPT !.targets = Tail(@), !.key = l.targets[2]]
                         ELSE CallAdjust([l EXCEPT !.targets = <<>>, !.key = NoKey],
                                         0 - l.totalUnread)]
  /\ acc' = [acc EXCEPT ![loc[p].key] = NoAcc]
  /\ dropped' = [dropped EXCEPT ![loc[p].key] = NoDrop]
  /\ UNCHANGED <<unreadTotal, crawlerEnabled, isCrawling, now, ops, evictions>>

(* -------------------- message-handler.ts: commands --------------------- *)
\* a postedAt one day short of the skip age when the clock starts
PostedEarly == StartTime - SKIP_AFTER_DAYS + 1

\* the <<resCount, unreadCount, postedAt>> of the upsert payloads
UpsertPayloads ==
  {<<0, 0, NULL>>, <<1, 0, PostedEarly>>, <<MaxCount - 1, MaxUpsertUnread, NULL>>}

\* handleUpsertComment up to its first await
UpsertWith(p, ks, pls) ==
  /\ loc[p].pc = "idle"
  /\ ops < MaxOps
  /\ \E k \in ks, pl \in pls :
       LET existing == CacheGet(commentCache, k)
           r == pl[1]
           u == pl[2]
           toSave == MkEntry(k, pl[3], r, u, now,
                             IF existing = NoEntry THEN NULL ELSE existing.version)
           d == IF existing = NoEntry THEN u ELSE u - existing.unreadCount
       IN loc' = [loc EXCEPT ![p] =
                   CallAdjust([Idle EXCEPT !.op = "upsert", !.entry = toSave,
                                           !.before = unreadTotal], d)]
  /\ ops' = ops + 1
  /\ UNCHANGED <<store, commentCache, unreadTotal, crawlerEnabled, isCrawling, now, evictions, acc, dropped>>

Upsert(p) == UpsertWith(p, CmdKeys, UpsertPayloads)

\* upsert-comment as the track button of any open page sends it: counts of 0
Track(p) == UpsertWith(p, Keys, {<<0, 0, NULL>>})

\* the mutant deletes without lowering the total
RemoveWith_mut(p, ks) ==
  /\ loc[p].pc = "idle"
  /\ ops < MaxOps
  /\ \E k \in ks :
       loc' = [loc EXCEPT ![p] = [Idle EXCEPT !.op = "remove", !.key = k, !.pc = "del"]]
  /\ ops' = ops + 1
  /\ UNCHANGED <<store, commentCache, unreadTotal, crawlerEnabled, isCrawling, now, evictions, acc, dropped>>

\* handleRemoveComment up to its first await
RemoveWith(p, ks) ==
  /\ loc[p].pc = "idle"
  /\ ops < MaxOps
  /\ \E k \in ks :
       LET existing == CacheGet(commentCache, k)
           prevUnread == IF existing = NoEntry THEN 0 ELSE existing.unreadCount
           l == [Idle EXCEPT !.op = "remove", !.key = k]
       IN loc' = [loc EXCEPT ![p] =
                   IF prevUnread > 0 THEN CallAdjust(l, 0 - prevUnread)
                   ELSE [l EXCEPT !.pc = "del"]]
  /\ ops' = ops + 1
  /\ UNCHANGED <<store, commentCache, unreadTotal, crawlerEnabled, isCrawling, now, evictions, acc, dropped>>

Remove(p) == RemoveWith(p, CmdKeys)

\* the mutant answers with the number of all cached entries as count
RemoveTopicWith_mut(p, ts) ==
  /\ loc[p].pc = "idle"
  /\ ops < MaxOps
  /\ \E t \in ts :
       LET targetComments == SelectSeq(commentCache, LAMBDA e : e.topicId = t)
           targets == [i \in 1 .. Len(targetComments) |-> getCommentKey(targetComments[i])]
           l == [Idle EXCEPT !.op = "removeTopic", !.targets = targets,
                             !.count = Len(commentCache),
                             !.totalUnread = SumUnread(targetComments)]
       IN loc' = [loc EXCEPT ![p] =
                   IF targets = <<>> THEN Finish(l, "ok")
                   ELSE [l EXCEPT !.pc = "del", !.key = targets[1]]]
  /\ ops' = ops + 1
  /\ UNCHANGED <<store, commentCache, unreadTotal, crawlerEnabled, isCrawling, now, evictions, acc, dropped>>

\* handleRemoveTopic up to its first await
RemoveTopicWith(p, ts) ==
  /\ loc[p].pc = "idle"
  /\ ops < MaxOps
  /\ \E t \in ts :
       LET targetComments == SelectSeq(commentCache, LAMBDA e : e.topicId = t)
           targets == [i \in 1 .. Len(targetComments) |-> getCommentKey(targetComments[i])]
           l == [Idle EXCEPT !.op = "removeTopic", !.targets = targets,
                             !.count = Len(targetComments),
                             !.totalUnread = SumUnread(targetComments)]
       IN loc' = [loc EXCEPT ![p] =
                   IF targets = <<>> THEN Finish(l, "ok")
                   ELSE [l EXCEPT !.pc = "del", !.key = targets[1]]]
  /\ ops' = ops + 1
  /\ UNCHANGED <<store, commentCache, unreadTotal, crawlerEnabled, isCrawling, now, evictions, acc, dropped>>

RemoveTopic(p) == RemoveTopicWith(p, TopicIds)

\* handleClearUnread up to its first await (the fetch of the current reply count)
ClearUnreadWith(p, ks) ==
  /\ loc[p].pc = "idle"
  /\ ops < MaxOps
  /\ \E k \in ks :
       LET existing == CacheGet(commentCache, k)
       IN loc' = [loc EXCEPT ![p] =
                   IF existing = NoEntry THEN Finish(Idle, "fail")
                   ELSE [Idle EXCEPT !.op = "clear", !.pc = "clr_fetch", !.prev = existing,
                                     !.before = unreadTotal]]
  /\ ops' = ops + 1
  /\ UNCHANGED <<store, commentCache, unreadTotal, crawlerEnabled, isCrawling, now, evictions, acc, dropped>>

ClearUnread(p) == ClearUnreadWith(p, CmdKeys)

\* the mutant keeps the replyCount it had, whatever the fetch returned
ClrFetch_mut(p) ==
  /\ loc[p].pc = "clr_fetch"
  /\ \E c \in (0 .. MaxCount) \cup {NULL} :
       LET l == loc[p]
           updatedEntry == [l.prev EXCEPT !.unreadCount = 0, !.updatedAt = now]
       IN loc' = [loc EXCEPT ![p] =
                   CallAdjust([l EXCEPT !.entry = updatedEntry, !.fetched = c],
                              0 - l.prev.unreadCount)]
  /\ UNCHANGED <<store, commentCache, unreadTotal, crawlerEnabled, isCrawling, now, ops, evictions, acc, dropped>>

\* handleClearUnread: the fetch resolves with a count or null
ClrFetch(p) ==
  /\ loc[p].pc = "clr_fetch"
  /\ \E c \in (0 .. MaxCount) \cup {NULL} :
       LET l == loc[p]
           updatedEntry == [l.prev EXCEPT !.unreadCount = 0, !.updatedAt = now,
                                          !.resCount = IF c # NULL THEN c ELSE @]
       IN loc' = [loc EXCEPT ![p] =
                   CallAdjust([l EXCEPT !.entry = updatedEntry, !.fetched = c],
                              0 - l.prev.unreadCount)]
  /\ UNCHANGED <<store, commentCache, unreadTotal, crawlerEnabled, isCrawling, now, ops, evictions, acc, dropped>>

\* handleSetCrawlerEnabled: storage.setItem resolves
SetCrawlerEnabled ==
  /\ ops < MaxOps
  /\ crawlerEnabled' = ~crawlerEnabled
  /\ loc' = [p \in Procs |->
              IF loc[p].pc = "l_waiting" /\ ~crawlerEnabled
              THEN [LoopAt("l_top") EXCEPT !.resp = "woken"]
              ELSE loc[p]]
  /\ ops' = ops + 1
  /\ UNCHANGED <<store, commentCache, unreadTotal, isCrawling, now, evictions, acc, dropped>>

(* ------------------ crawler-service.ts: one crawl cycle ---------------- *)
\* return updatedCount through the outer finally
CrawlEnd(l) == Finish(l, IF l.updatedCount > 0 THEN "updated" ELSE "zero")

\* the mutant returns on an empty list before the try block, with the flag left set
CrawlCall_mut(p, from) ==
  /\ loc[p].pc = from
  /\ ops < MaxOps
  /\ ~isCrawling
  /\ IF commentCache = <<>>
     THEN /\ loc' = [loc EXCEPT ![p] = Finish(Idle, "zero")]
          /\ isCrawling' = TRUE
     ELSE /\ loc' = [loc EXCEPT ![p] =
                      [Idle EXCEPT !.op = "crawl", !.pc = "c_enabled",
                                   !.list = commentCache, !.idx = 1]]
          /\ isCrawling' = TRUE
  /\ ops' = ops + 1
  /\ UNCHANGED <<store, commentCache, unreadTotal, crawlerEnabled, now, evictions, acc, dropped>>

\* crawlCommentsOnce is called while no cycle runs (poll loop, or crawl-now)
CrawlCall(p, from) ==
  /\ loc[p].pc = from
  /\ ops < MaxOps
  /\ ~isCrawling
  /\ IF commentCache = <<>>
     THEN /\ loc' = [loc EXCEPT ![p] = Finish(Idle, "zero")]
          /\ UNCHANGED isCrawling
     ELSE /\ loc' = [loc EXCEPT ![p] =
                      [Idle EXCEPT !.op = "crawl", !.pc = "c_enabled",
                                   !.list = commentCache, !.idx = 1]]
          /\ isCrawling' = TRUE
  /\ ops' = ops + 1
  /\ UNCHANGED <<store, commentCache, unreadTotal, crawlerEnabled, now, evictions, acc, dropped>>

\* crawlCommentsOnce called by a call site with nothing in flight
CrawlStart(p) == CrawlCall(p, "idle")

\* the mutant returns through the finally block, which clears the flag
CrawlBusy_mut(p) ==
  /\ loc[p].pc = "idle"
  /\ ops < MaxOps
  /\ isCrawling
  /\ loc' = [loc EXCEPT ![p] = Finish(Idle, "busy")]
  /\ isCrawling' = FALSE
  /\ ops' = ops + 1
  /\ UNCHANGED <<store, commentCache, unreadTotal, crawlerEnabled, now, evictions, acc, dropped>>

\* crawlCommentsOnce is called while a cycle runs: returns 0 at once
CrawlBusy(p) ==
  /\ loc[p].pc = "idle"
  /\ ops < MaxOps
  /\ isCrawling
  /\ loc' = [loc EXCEPT ![p] = Finish(Idle, "busy")]
  /\ ops' = ops + 1
  /\ UNCHANGED <<store, commentCache, unreadTotal, crawlerEnabled, isCrawling, now, evictions, acc, dropped>>

\* the top of the per-entry loop once the enabled flag is known (enabledNow); previous
\* values are taken from the cache
CheckBefore(p, enabledNow) ==
  /\ loc[p].pc = "c_enabled"
  /\ LET l == loc[p]
         comment == l.list[l.idx]
         cached == CacheGet(commentCache, getCommentKey(comment))
         previousComment == IF cached = NoEntry THEN comment ELSE cached
     IN IF ~enabledNow
        THEN /\ loc' = [loc EXCEPT ![p] = CrawlEnd(l)]
             /\ isCrawling' = FALSE
        ELSE /\ loc' = [loc EXCEPT ![p] =
                         IF IsTooOld(previousComment, now) THEN CrawlSleep(l)
                         ELSE [l EXCEPT !.pc = "c_fetch", !.prev = previousComment]]
             /\ UNCHANGED isCrawling
  /\ acc' = LET k == getCommentKey(loc[p].list[loc[p].idx])
                cached == CacheGet(commentCache, k)
                previousComment == IF cached = NoEntry THEN loc[p].list[loc[p].idx] ELSE cached
            IN IF enabledNow /\ IsTooOld(previousComment, now) /\ acc[k] # NoAcc
               THEN [acc EXCEPT ![k].missed = TRUE]
               ELSE acc
  /\ UNCHANGED <<store, commentCache, unreadTotal, crawlerEnabled, now, ops, evictions, dropped>>

\* the enabled flag read before an entry resolves
CEnabled(p) == CheckBefore(p, crawlerEnabled)

\* the enabled flag read before an entry throws: caught, the entry is processed
CEnabledFail(p) == CheckBefore(p, TRUE)

\* a fetch step that takes a null result for a count of 0
CFetchWith_mut(p, c) ==
  /\ loc[p].pc = "c_fetch"
  /\ LET l == [loc[p] EXCEPT !.lastFetch = IF c = NULL THEN "null" ELSE "count"]
         n == IF c = NULL THEN 0 ELSE c
         unreadCount == NewUnread(l.prev, n)
         delta == unreadCount - l.prev.unreadCount
         resChanged == n # l.prev.resCount
         updatedEntry == [l.prev EXCEPT !.resCount = n, !.unreadCount = unreadCount,
                                        !.updatedAt = now]
     IN /\ loc' = [loc EXCEPT ![p] =
                 IF delta # 0 \/ resChanged
                 THEN BeginPut([l EXCEPT !.fetched = n, !.delta = delta],
                               updatedEntry, MAX_RETRIES)
                 ELSE CrawlSleep(l)]
        /\ UNCHANGED acc
  /\ UNCHANGED <<store, commentCache, unreadTotal, crawlerEnabled, isCrawling, now, ops, evictions, dropped>>

\* the mutant saves the entry after every fetch that returned a count
CFetchWith_always(p, c) ==
  /\ loc[p].pc = "c_fetch"
  /\ LET l == [loc[p] EXCEPT !.lastFetch = IF c = NULL THEN "null" ELSE "count"]
         unreadCount == NewUnread(l.prev, c)
         delta == unreadCount - l.prev.unreadCount
         updatedEntry == [l.prev EXCEPT !.resCount = c, !.unreadCount = unreadCount,
                                        !.updatedAt = now]
     IN /\ loc' = [loc EXCEPT ![p] =
                 IF c = NULL THEN CrawlSleep(l)
                 ELSE BeginPut([l EXCEPT !.fetched = c, !.delta = delta],
                               updatedEntry, MAX_RETRIES)]
        /\ acc' = LET k == getCommentKey(l.prev)
                  IN IF acc[k] = NoAcc THEN acc
                     ELSE IF c = NULL THEN [acc EXCEPT ![k].missed = TRUE]
                     ELSE IF c < l.prev.resCount THEN [acc EXCEPT ![k] = NoAcc]
                     ELSE acc
  /\ UNCHANGED <<store, commentCache, unreadTotal, crawlerEnabled, isCrawling, now, ops, evictions, dropped>>

\* fetchResCountForComment resolves with c, a count or null
CFetchWith(p, c) ==
  /\ loc[p].pc = "c_fetch"
  /\ LET l == [loc[p] EXCEPT !.lastFetch = IF c = NULL THEN "null" ELSE "count"]
         unreadCount == NewUnread(l.prev, c)
         delta == unreadCount - l.prev.unreadCount
         resChanged == c # l.prev.resCount
         updatedEntry == [l.prev EXCEPT !.resCount = c, !.unreadCount = unreadCount,
                                        !.updatedAt = now]
     IN /\ loc' = [loc EXCEPT ![p] =
                 IF c = NULL THEN CrawlSleep(l)
                 ELSE IF delta # 0 \/ resChanged
                      THEN BeginPut([l EXCEPT !.fetched = c, !.delta = delta],
                                    updatedEntry, MAX_RETRIES)
                      ELSE CrawlSleep(l)]
        /\ acc' = LET k == getCommentKey(l.prev)
                  IN IF acc[k] = NoAcc THEN acc
                     ELSE IF c = NULL THEN [acc EXCEPT ![k].missed = TRUE]
                     ELSE IF c < l.prev.resCount THEN [acc EXCEPT ![k] = NoAcc]
                     ELSE acc
  /\ UNCHANGED <<store, commentCache, unreadTotal, crawlerEnabled, isCrawling, now, ops, evictions, dropped>>

\* the awaited fetch of the current entry resolves
CFetch(p) == \E c \in (0 .. MaxCount) \cup {NULL} : CFetchWith(p, c)

\* sleep(ACTIVE_DELAY_MS) ends; the enabled flag is read again
CSleep(p) ==
  /\ loc[p].pc = "c_sleep"
  /\ loc' = [loc EXCEPT ![p] = [loc[p] EXCEPT !.pc = "c_enabled2"]]
  /\ UNCHANGED <<store, commentCache, unreadTotal, crawlerEnabled, isCrawling, now, ops, evictions, acc, dropped>>

\* the end of the finally block that moves to the next entry whatever the enabled flag
\* says
CheckAfter_mut(p, enabledAfter) ==
  /\ loc[p].pc = "c_enabled2"
  /\ LET l == loc[p]
     IN IF l.idx = Len(l.list)
        THEN /\ loc' = [loc EXCEPT ![p] = CrawlEnd(l)]
             /\ isCrawling' = FALSE
        ELSE /\ loc' = [loc EXCEPT ![p] =
                         [l EXCEPT !.pc = "c_enabled", !.idx = @ + 1, !.lastPut = "none",
                                    !.lastFetch = "none"]]
             /\ UNCHANGED isCrawling
  /\ UNCHANGED <<store, commentCache, unreadTotal, crawlerEnabled, now, ops, evictions, acc, dropped>>

\* the end of the finally block once the enabled flag is known (enabledAfter): next
\* entry, or the cycle ends
CheckAfter(p, enabledAfter) ==
  /\ loc[p].pc = "c_enabled2"
  /\ LET l == loc[p]
     IN IF ~enabledAfter \/ l.idx = Len(l.list)
        THEN /\ loc' = [loc EXCEPT ![p] = CrawlEnd(l)]
             /\ isCrawling' = FALSE
        ELSE /\ loc' = [loc EXCEPT ![p] =
                         [l EXCEPT !.pc = "c_enabled", !.idx = @ + 1, !.lastPut = "none",
                                    !.lastFetch = "none"]]
             /\ UNCHANGED isCrawling
  /\ UNCHANGED <<store, commentCache, unreadTotal, crawlerEnabled, now, ops, evictions, acc, dropped>>

\* the enabled flag read after the delay resolves
CEnabled2(p) == CheckAfter(p, crawlerEnabled)

\* the enabled flag read after the delay throws: caught, the loop goes on
CEnabled2Fail(p) == CheckAfter(p, TRUE)

(* ------------------- failures of awaited storage calls ----------------- *)
\* an exception that leaves the per-entry loop: the call ends with an error
Throw_mut(l) == Finish(l, "error")

\* an awaited call throws: the crawl's per-entry catch and finally take over, a
\* command's exception reaches routeMessage's catch
Throw(l) == IF l.op = "crawl" THEN CrawlSleep(l) ELSE Finish(l, "error")

\* getUnreadTotal throws inside adjustUnread
AdjGetFail(p) ==
  /\ loc[p].pc = "adj_get"
  /\ loc' = [loc EXCEPT ![p] = Throw(loc[p])]
  /\ UNCHANGED <<store, commentCache, unreadTotal, crawlerEnabled, isCrawling, now, ops, evictions, acc, dropped>>

\* storage.setItem throws inside setUnreadTotal
AdjSetFail(p) ==
  /\ loc[p].pc = "adj_set"
  /\ loc' = [loc EXCEPT ![p] = Throw(loc[p])]
  /\ UNCHANGED <<store, commentCache, unreadTotal, crawlerEnabled, isCrawling, now, ops, evictions, acc, dropped>>

\* saveComment's re-read of the record throws
SaveGetFail(p) ==
  /\ loc[p].pc = "save_get"
  /\ loc' = [loc EXCEPT ![p] = Throw(loc[p])]
  /\ dropped' = DropIfLost(loc[p], Throw(loc[p]))
  /\ UNCHANGED <<store, commentCache, unreadTotal, crawlerEnabled, isCrawling, now, ops, evictions, acc>>

\* a deletion of enforceMaxEntries throws
EvictDelFail(p) ==
  /\ loc[p].pc = "evict_del"
  /\ loc' = [loc EXCEPT ![p] = Throw(loc[p])]
  /\ UNCHANGED <<store, commentCache, unreadTotal, crawlerEnabled, isCrawling, now, ops, evictions, acc, dropped>>

\* deleteComment of remove-comment / remove-topic throws
DelFail(p) ==
  /\ loc[p].pc = "del"
  /\ loc' = [loc EXCEPT ![p] = Throw(loc[p])]
  /\ UNCHANGED <<store, commentCache, unreadTotal, crawlerEnabled, isCrawling, now, ops, evictions, acc, dropped>>

(* --------------------------- specifications ---------------------------- *)
PutSteps(p) ==
  \/ PutGet(p)
  \/ PutSet(p)

\* a storage operation of an attempt throws, and the wait before the next attempt ends
PutFailures(p) ==
  \/ PutGetFail(p)
  \/ PutSetFail(p)
  \/ PutSleep(p)

\* the store driven directly by two call sites whose puts and deletes interleave
NextPut ==
  \/ Tick
  \/ \E p \in Procs : CallPut(p) \/ CallStoreDelete(p) \/ StoreDelete(p)
  \/ \E p \in Procs : PutSteps(p)
  \/ \E p \in Procs : PutFailures(p)

SpecPut == Init /\ [][NextPut]_vars

\* a command arrives at the message handler
Commands(p) ==
  \/ Upsert(p)
  \/ Remove(p)
  \/ RemoveTopic(p)
  \/ ClearUnread(p)

\* crawlCommentsOnce is called: by the poll loop ("crawl") or by crawl-now ("cmd")
Crawls(p) ==
  \/ CrawlStart(p)
  \/ CrawlBusy(p)

\* an awaited operation of a running command or cycle completes
Steps(p) ==
  \/ AdjGet(p)
  \/ AdjSet(p)
  \/ SaveGet(p)
  \/ EvictDel(p)
  \/ Del(p)
  \/ ClrFetch(p)
  \/ CEnabled(p)
  \/ CFetch(p)
  \/ CSleep(p)
  \/ CEnabled2(p)

\* the awaited operations of saveComment after its put
CacheSteps(p) ==
  \/ SaveGet(p)
  \/ EvictDel(p)

\* the background starts with MAX_ENTRIES records persisted by an earlier session:
\* loadCacheFromStorage has filled the cache from them
Persisted(k, t) == MkEntry(k, NULL, 0, 0, t, 1)

InitCap ==
  /\ \E t1, t2 \in {StartTime - 1, StartTime} :
       /\ store = [k \in Keys |->
                    IF k = <<"1", "1">> THEN Persisted(k, t1)
                    ELSE IF k = <<"1", "2">> THEN Persisted(k, t2)
                    ELSE NoEntry]
       /\ commentCache = <<Persisted(<<"1", "1">>, t1), Persisted(<<"1", "2">>, t2)>>
  /\ unreadTotal = 0
  /\ crawlerEnabled = TRUE
  /\ isCrawling = FALSE
  /\ now = StartTime
  /\ loc = [p \in Procs |-> Idle]
  /\ ops = 0
  /\ evictions = 0
  /\ acc = [k \in Keys |-> NoAcc]
  /\ dropped = [k \in Keys |-> NoDrop]

\* upsert-comment messages handled concurrently: each listener call runs its own
\* async frame, so saves of different messages overlap
NextCap ==
  \/ Tick
  \/ \E p \in Procs : Track(p)
  \/ \E p \in Procs : CacheSteps(p)
  \/ \E p \in Procs : PutSteps(p)

SpecCap == InitCap /\ [][NextCap]_vars

AllIdle == \A p \in Procs : loc[p].pc = "idle"

\* the whole system: commands and crawl cycles interleave at every await, storage may fail
Next ==
  \/ Tick
  \/ SetCrawlerEnabled
  \/ Commands("cmd")
  \/ \E p \in Procs : Crawls(p)
  \/ \E p \in Procs : Steps(p)
  \/ \E p \in Procs : PutSteps(p)
  \/ \E p \in Procs : PutFailures(p)

Spec == Init /\ [][Next]_vars

\* commands and crawl cycles run one at a time to completion, no storage operation fails
NextSeq ==
  \/ Tick
  \/ AllIdle /\ SetCrawlerEnabled
  \/ AllIdle /\ Commands("cmd")
  \/ AllIdle /\ CrawlStart("crawl")
  \/ \E p \in Procs : Steps(p)
  \/ \E p \in Procs : PutSteps(p)

SpecSeq == Init /\ [][NextSeq]_vars

\* an awaited storage call other than those of the put throws
Failures(p) ==
  \/ AdjGetFail(p)
  \/ AdjSetFail(p)
  \/ SaveGetFail(p)
  \/ EvictDelFail(p)
  \/ DelFail(p)
  \/ CEnabledFail(p)
  \/ CEnabled2Fail(p)

\* commands and crawl cycles run one at a time, every awaited storage call may fail
NextFail ==
  \/ Tick
  \/ AllIdle /\ SetCrawlerEnabled
  \/ AllIdle /\ Commands("cmd")
  \/ AllIdle /\ CrawlStart("crawl")
  \/ \E p \in Procs : Steps(p)
  \/ \E p \in Procs : PutSteps(p)
  \/ \E p \in Procs : PutFailures(p)
  \/ \E p \in Procs : Failures(p)

SpecFail == Init /\ [][NextFail]_vars

\* the awaited operations of the per-entry loop of crawlCommentsOnce
CrawlSteps(p) ==
  \/ CEnabled(p)
  \/ CFetch(p)
  \/ CSleep(p)
  \/ CEnabled2(p)

\* the awaited operations of saveComment's re-read and of adjustUnread
AccountSteps(p) ==
  \/ SaveGet(p)
  \/ AdjGet(p)
  \/ AdjSet(p)

\* an awaited storage call of a crawl cycle, other than those of the put, throws
CrawlFailures(p) ==
  \/ CEnabledFail(p)
  \/ CEnabled2Fail(p)
  \/ SaveGetFail(p)
  \/ AdjGetFail(p)
  \/ AdjSetFail(p)

\* a record persisted by an earlier session: postedAt, replyCount, unreadCount
Seeded(k, posted, res, unread) == MkEntry(k, posted, res, unread, StartTime, 1)

\* postedAt exactly SKIP_AFTER_DAYS before the start of the clock
PostedAtLimit == StartTime - SKIP_AFTER_DAYS

\* the background starts with two records persisted by an earlier session, loaded
\* into the cache by loadCacheFromStorage; the total is their sum
InitCrawl ==
  /\ \E e1 \in {Seeded(<<"1", "1">>, NULL, 1, 1), Seeded(<<"1", "1">>, PostedEarly, 1, 0)},
        e2 \in {Seeded(<<"1", "2">>, NULL, 0, 0), Seeded(<<"1", "2">>, PostedAtLimit, 1, 1)} :
       /\ store = [k \in Keys |->
                    IF k = <<"1", "1">> THEN e1 ELSE IF k = <<"1", "2">> THEN e2 ELSE NoEntry]
       /\ commentCache = <<e1, e2>>
       /\ unreadTotal = e1.unreadCount + e2.unreadCount
  /\ crawlerEnabled \in BOOLEAN
  /\ isCrawling = FALSE
  /\ now = StartTime
  /\ loc = [p \in Procs |-> Idle]
  /\ ops = 0
  /\ evictions = 0
  /\ acc = [k \in Keys |-> NoAcc]
  /\ dropped = [k \in Keys |-> NoDrop]

\* crawl cycles of the poll loop and of crawl-now over the two records, the enabled
\* flag switched at any moment
NextCrawl ==
  \/ Tick
  \/ SetCrawlerEnabled
  \/ \E p \in Procs : Crawls(p)
  \/ \E p \in Procs : CrawlSteps(p)
  \/ \E p \in Procs : AccountSteps(p)
  \/ \E p \in Procs : PutSteps(p)

SpecCrawl == InitCrawl /\ [][NextCrawl]_vars

\* as InitCrawl, the two records without postedAt
InitRetry ==
  /\ InitCrawl
  /\ \A i \in 1 .. Len(commentCache) : commentCache[i].postedAt = NULL

\* the crawl cycles of the poll loop, one after the other, every awaited storage
\* call may fail
NextRetry ==
  \/ Tick
  \/ ops < MaxOps - 1 /\ CrawlStart("crawl")
  \/ CrawlSteps("crawl")
  \/ AccountSteps("crawl")
  \/ PutSteps("crawl")
  \/ PutFailures("crawl")
  \/ CrawlFailures("crawl")

SpecRetry == InitRetry /\ [][NextRetry]_vars

(* --------------- clear-unread next to the crawl cycles ----------------- *)
\* the awaited operations of clear-unread and of a crawl cycle
MarkReadSteps(p) ==
  \/ ClrFetch(p)
  \/ CrawlSteps(p)
  \/ AccountSteps(p)
  \/ PutSteps(p)

\* clear-unread commands and crawl cycles over two persisted records, each run to its
\* end before the next begins
NextMarkRead ==
  \/ Tick
  \/ AllIdle /\ ClearUnread("cmd")
  \/ AllIdle /\ CrawlStart("crawl")
  \/ \E p \in Procs : MarkReadSteps(p)

SpecMarkRead == InitCrawl /\ [][NextMarkRead]_vars

\* handleClearUnread is called for the entry a crawl cycle is fetching the count of
ClearDuringFetch(p) ==
  \E q \in Procs \ {p} :
    /\ loc[q].op = "crawl"
    /\ loc[q].pc = "c_fetch"
    /\ ClearUnreadWith(p, {getCommentKey(loc[q].prev)})

\* crawl cycles over the two records; while a cycle awaits the count of an entry, a
\* clear-unread of that entry may arrive and interleave with the cycle at every await
NextRace ==
  \/ Tick
  \/ AllIdle /\ CrawlStart("crawl")
  \/ ClearDuringFetch("cmd")
  \/ \E p \in Procs : MarkReadSteps(p)

SpecRace == InitCrawl /\ [][NextRace]_vars

\* handleRemoveComment or handleRemoveTopic is called while a crawl cycle is in progress
RemoveDuringCrawl(p) ==
  /\ isCrawling
  /\ \/ Remove(p)
     \/ RemoveTopic(p)

\* crawl cycles over the two records; while a cycle is in progress entries are removed
\* by commands that interleave with the cycle at every await; nothing is ever upserted
NextRemoved ==
  \/ Tick
  \/ AllIdle /\ CrawlStart("crawl")
  \/ RemoveDuringCrawl("cmd")
  \/ \E p \in Procs : CrawlSteps(p)
  \/ \E p \in Procs : AccountSteps(p)
  \/ \E p \in Procs : PutSteps(p)
  \/ \E p \in Procs : Del(p)

SpecRemoved == InitCrawl /\ [][NextRemoved]_vars

(* ------------- crawler-service.ts: the end of every crawl cycle -------- *)
\* the awaited fetch of the current entry rejects: the per-entry catch and finally
\* take over
CFetchFail(p) ==
  /\ loc[p].pc = "c_fetch"
  /\ loc' = [loc EXCEPT ![p] = Throw([loc[p] EXCEPT !.lastFetch = "rejected"])]
  /\ UNCHANGED <<store, commentCache, unreadTotal, crawlerEnabled, isCrawling, now, ops, evictions, acc, dropped>>

\* every awaited operation of a crawl cycle settles: it resolves, or it rejects
CycleSteps(p) ==
  \/ CrawlSteps(p)
  \/ AccountSteps(p)
  \/ PutSteps(p)
  \/ PutFailures(p)
  \/ CrawlFailures(p)
  \/ CFetchFail(p)

\* nothing is tracked, or two records are
InitCycle == Init \/ InitCrawl

\* crawl cycles requested by the poll loop and by crawl-now at any moment, over an
\* empty list or over two records, the enabled flag switched at any moment, every
\* awaited call resolving or rejecting
NextCycle ==
  \/ ops < MaxOps - 1 /\ SetCrawlerEnabled
  \/ ops < MaxOps - 1 /\ CrawlStart("crawl")
  \/ ops < MaxOps - 1 /\ Crawls("cmd")
  \/ \E p \in Procs : CycleSteps(p)

\* an awaited operation does not stay pending for ever
SpecCycle == InitCycle /\ [][NextCycle]_vars /\ WF_vars(\E p \in Procs : CycleSteps(p))

(* ------------- validation.ts and routeMessage: the command boundary ---- *)
\* a topicId or commentNumber as a message carries it: a JavaScript value of some
\* type, a string being its sequence of characters
RawString(chars) == [type |-> "string", chars |-> chars]

RawUndefined == [type |-> "undefined", chars |-> <<>>]

\* the number 1, which is truthy and not a string
RawNumber == [type |-> "number", chars |-> <<"1">>]

TenDigits == <<"1", "2", "3", "4", "5", "6", "7", "8", "9", "0">>

RawIds ==
  {RawUndefined, RawNumber, RawString(<<>>), RawString(<<"1">>), RawString(<<"2">>),
   RawString(<<"1", "a">>), RawString(TenDigits), RawString(TenDigits \o <<"1">>)}

\* the characters \d matches
Digits == {"0", "1", "2", "3", "4", "5", "6", "7", "8", "9"}

\* !value is false
Truthy(raw) == raw.type = "number" \/ (raw.type = "string" /\ raw.chars # <<>>)

\* the mutant tests only that the string is not empty
validateTopicId_mut(raw) == Truthy(raw) /\ raw.type = "string"

\* validateTopicId: a string matching /^\d{1,10}$/
validateTopicId(raw) ==
  IF ~Truthy(raw) \/ raw.type # "string" THEN FALSE
  ELSE /\ Len(raw.chars) >= 1
       /\ Len(raw.chars) <= 10
       /\ \A i \in 1 .. Len(raw.chars) : raw.chars[i] \in Digits

\* validateCommentNumber: a string matching /^\d{1,10}$/
validateCommentNumber(raw) ==
  IF ~Truthy(raw) \/ raw.type # "string" THEN FALSE
  ELSE /\ Len(raw.chars) >= 1
       /\ Len(raw.chars) <= 10
       /\ \A i \in 1 .. Len(raw.chars) : raw.chars[i] \in Digits

\* the string of a sequence of characters
RECURSIVE StringOf(_)
StringOf(chars) == IF chars = <<>> THEN "" ELSE Head(chars) \o StringOf(Tail(chars))

\* the messages of the four commands that name an entry or a topic; hasEntry: an
\* upsert-comment carries an entry object
MessageTypes == {"upsert-comment", "remove-comment", "remove-topic", "clear-unread"}

Messages ==
  [type : MessageTypes \ {"remove-topic"}, topicId : RawIds, commentNumber : RawIds,
   hasEntry : {TRUE}]
    \cup [type : {"remove-topic"}, topicId : RawIds, commentNumber : {RawUndefined},
          hasEntry : {TRUE}]
    \cup [type : {"upsert-comment"}, topicId : {RawUndefined}, commentNumber : {RawUndefined},
          hasEntry : {FALSE}]

\* the error routeMessage or the handler answers before the first await, "none" when
\* the message passes
RouteError(msg) ==
  IF msg.type = "upsert-comment"
  THEN IF ~msg.hasEntry THEN "no_entry"
       ELSE IF ~validateTopicId(msg.topicId) THEN "bad_topic"
       ELSE IF ~validateCommentNumber(msg.commentNumber) THEN "bad_number"
       ELSE "none"
  ELSE IF msg.type = "remove-topic"
  THEN IF ~Truthy(msg.topicId) THEN "missing"
       ELSE IF ~validateTopicId(msg.topicId) THEN "bad_topic"
       ELSE "none"
  ELSE IF ~Truthy(msg.topicId) \/ ~Truthy(msg.commentNumber) THEN "missing"
       ELSE IF ~validateTopicId(msg.topicId) THEN "bad_topic"
       ELSE IF ~validateCommentNumber(msg.commentNumber) THEN "bad_number"
       ELSE "none"

\* { ok: false, error } is returned before anything is awaited
Reject(p, err) ==
  /\ loc[p].pc = "idle"
  /\ ops < MaxOps
  /\ loc' = [loc EXCEPT ![p] = Finish(Idle, err)]
  /\ ops' = ops + 1
  /\ UNCHANGED <<store, commentCache, unreadTotal, crawlerEnabled, isCrawling, now, evictions, acc, dropped>>

\* a message that passed names an entry nothing is known about: remove-comment and
\* remove-topic find nothing to delete and answer ok, clear-unread answers that the
\* comment is not found
Untracked(p, msg) ==
  /\ loc[p].pc = "idle"
  /\ ops < MaxOps
  /\ msg.type # "upsert-comment"
  /\ loc' = [loc EXCEPT ![p] = Finish(Idle, IF msg.type = "clear-unread" THEN "fail" ELSE "ok")]
  /\ ops' = ops + 1
  /\ UNCHANGED <<store, commentCache, unreadTotal, crawlerEnabled, isCrawling, now, evictions, acc, dropped>>

\* routeMessage with one message: the checks, then the handler up to its first await
Route(p, msg) ==
  LET t == StringOf(msg.topicId.chars)
      k == <<t, StringOf(msg.commentNumber.chars)>>
  IN IF RouteError(msg) # "none" THEN Reject(p, RouteError(msg))
     ELSE IF msg.type = "remove-topic"
          THEN IF t \in TopicIds THEN RemoveTopicWith(p, {t}) ELSE Untracked(p, msg)
     ELSE IF k \notin Keys THEN Untracked(p, msg)
     ELSE IF msg.type = "upsert-comment" THEN UpsertWith(p, {k}, UpsertPayloads)
     ELSE IF msg.type = "remove-comment" THEN RemoveWith(p, {k})
     ELSE ClearUnreadWith(p, {k})

\* the four commands with every kind of identifier, one message at a time
Receive(p) == \E msg \in Messages : Route(p, msg)

\* the awaited operations of the four commands
CommandSteps(p) ==
  \/ AdjGet(p)
  \/ AdjSet(p)
  \/ SaveGet(p)
  \/ EvictDel(p)
  \/ Del(p)
  \/ ClrFetch(p)

NextRoute ==
  \/ Receive("cmd")
  \/ CommandSteps("cmd")
  \/ PutSteps("cmd")

SpecRoute == Init /\ [][NextRoute]_vars

(* ------------------- messages.ts: the startup of the background ------- *)
\* a storage key under the comment prefix that does not split into topic and number
OddKey == <<"1", "2", "3">>

\* a persisted value that is an object but not a comment entry: its fields read as
\* undefined
BadRecord ==
  [topicId |-> "undefined", commentNumber |-> "undefined", postedAt |-> NULL,
   resCount |-> NULL, unreadCount |-> NULL, updatedAt |-> NULL, version |-> NULL]

\* a persisted null
NullRecord == [null |-> TRUE]

\* the order in which Object.entries lists the persisted keys
ScanOrder == <<<<"1", "1">>, <<"1", "2">>, OddKey, <<"2", "1">>, <<"2", "2">>>>

\* loadAllCommentsFromStorage: every value whose key has the prefix and two parts is
\* pushed as it is
RECURSIVE LoadAll(_, _)
LoadAll(st, order) ==
  IF order = <<>> THEN <<>>
  ELSE IF st[Head(order)] # NoEntry /\ Len(Head(order)) = 2
       THEN <<st[Head(order)]>> \o LoadAll(st, Tail(order))
       ELSE LoadAll(st, Tail(order))

\* loadCacheFromStorage: the loop over the loaded values; reading the fields of a null
\* throws, and the catch around the whole load keeps what was cached so far
RECURSIVE LoadInto(_, _)
LoadInto(c, comments) ==
  IF comments = <<>> THEN c
  ELSE IF Head(comments) = NullRecord THEN c
       ELSE LoadInto(CacheSet(c, getCommentKey(Head(comments)), Head(comments)),
                     Tail(comments))

\* loadCacheFromStorage: storage.local.get resolves and the cache is filled
StartupLoad(p) ==
  /\ loc[p].pc = "s_load"
  /\ commentCache' = LoadInto(<<>>, LoadAll(store, ScanOrder))
  /\ loc' = [loc EXCEPT ![p] = [loc[p] EXCEPT !.pc = "s_tabs", !.resp = "scanned"]]
  /\ UNCHANGED <<store, unreadTotal, crawlerEnabled, isCrawling, now, ops, evictions, acc, dropped>>

\* storage.local.get rejects: loadAllCommentsFromStorage returns [], the cache is empty
StartupLoadFail(p) ==
  /\ loc[p].pc = "s_load"
  /\ commentCache' = <<>>
  /\ loc' = [loc EXCEPT ![p] = [loc[p] EXCEPT !.pc = "s_tabs", !.resp = "scan_failed"]]
  /\ UNCHANGED <<store, unreadTotal, crawlerEnabled, isCrawling, now, ops, evictions, acc, dropped>>

\* the mutant adds the sum to the total that is stored
StartupTabs_mut(p) ==
  /\ loc[p].pc = "s_tabs"
  /\ loc' = [loc EXCEPT ![p] = [loc[p] EXCEPT !.pc = "s_set",
                                              !.totalUnread = unreadTotal + SumUnread(commentCache)]]
  /\ UNCHANGED <<store, commentCache, unreadTotal, crawlerEnabled, isCrawling, now, ops, evictions, acc, dropped>>

\* the icon of the active tab is set; recomputeBadge sums the cache and awaits the
\* write of setUnreadTotal
StartupTabs(p) ==
  /\ loc[p].pc = "s_tabs"
  /\ loc' = [loc EXCEPT ![p] = [loc[p] EXCEPT !.pc = "s_set",
                                              !.totalUnread = SumUnread(commentCache)]]
  /\ UNCHANGED <<store, commentCache, unreadTotal, crawlerEnabled, isCrawling, now, ops, evictions, acc, dropped>>

\* recomputeBadge: setUnreadTotal stores the total, then renders the badge and sends
\* the refresh message; neither failure is raised
RecomputeSetWith(p, badgeOk, sendOk) ==
  /\ loc[p].pc = "s_set"
  /\ unreadTotal' = Max(0, loc[p].totalUnread)
  /\ loc' = [loc EXCEPT ![p] =
              [Finish(loc[p], "ok") EXCEPT !.badge = IF badgeOk THEN "set" ELSE "failed",
                                           !.refresh = IF sendOk THEN "sent" ELSE "failed"]]
  /\ UNCHANGED <<store, commentCache, crawlerEnabled, isCrawling, now, ops, evictions, acc, dropped>>

RecomputeSet(p) == RecomputeSetWith(p, TRUE, TRUE)

\* the startup of the background script, from any persisted content and any stored
\* total: the cache is empty and storage.local.get is awaited
StoredValues(k) ==
  {NoEntry, MkEntry(k, NULL, 1, 0, StartTime, 1), MkEntry(k, NULL, 2, MaxCount, StartTime, 1),
   BadRecord, NullRecord}

InitStartup ==
  /\ \E v1 \in StoredValues(<<"1", "1">>), v2 \in StoredValues(<<"1", "2">>),
        v3 \in {NoEntry, MkEntry(<<"1", "2">>, NULL, 1, 1, StartTime, 1)},
        v4 \in {NoEntry, MkEntry(<<"2", "1">>, NULL, 1, 1, StartTime, 1)} :
       store = [k \in Keys \cup {OddKey} |->
                 IF k = <<"1", "1">> THEN v1
                 ELSE IF k = <<"1", "2">> THEN v2
                 ELSE IF k = OddKey THEN v3
                 ELSE IF k = <<"2", "1">> THEN v4
                 ELSE NoEntry]
  /\ commentCache = <<>>
  /\ unreadTotal \in 0 .. MaxCount
  /\ crawlerEnabled = TRUE
  /\ isCrawling = FALSE
  /\ now = StartTime
  /\ loc = [p \in Procs |-> IF p = "cmd" THEN [Idle EXCEPT !.op = "startup", !.pc = "s_load"]
                             ELSE Idle]
  /\ ops = 0
  /\ evictions = 0
  /\ acc = [k \in Keys |-> NoAcc]
  /\ dropped = [k \in Keys |-> NoDrop]

NextStartup ==
  \/ StartupLoad("cmd")
  \/ StartupLoadFail("cmd")
  \/ StartupTabs("cmd")
  \/ RecomputeSet("cmd")

SpecStartup == InitStartup /\ [][NextStartup]_vars

(* --------------------- messages.ts: adjustUnread alone ----------------- *)
\* the deltas the callers of adjustUnread pass
Deltas == (0 - MaxCount) .. MaxCount

\* adjustUnread(d) is called while nothing else is in flight
CallAdjustWith(p, d) ==
  /\ loc[p].pc = "idle"
  /\ ops < MaxOps
  /\ \A q \in Procs : loc[q].pc = "idle"
  /\ loc' = [loc EXCEPT ![p] = CallAdjust([Idle EXCEPT !.op = "adjust"], d)]
  /\ ops' = ops + 1
  /\ UNCHANGED <<store, commentCache, unreadTotal, crawlerEnabled, isCrawling, now, evictions, acc, dropped>>

CallAdjustment(p) == \E d \in Deltas : CallAdjustWith(p, d)

\* any total setUnreadTotal can have stored
InitAdjust ==
  /\ store = [k \in Keys |-> NoEntry]
  /\ commentCache = <<>>
  /\ unreadTotal \in 0 .. MaxCount
  /\ crawlerEnabled = TRUE
  /\ isCrawling = FALSE
  /\ now = StartTime
  /\ loc = [p \in Procs |-> Idle]
  /\ ops = 0
  /\ evictions = 0
  /\ acc = [k \in Keys |-> NoAcc]
  /\ dropped = [k \in Keys |-> NoDrop]

\* calls of adjustUnread, one at a time
NextAdjust ==
  \/ \E p \in Procs : CallAdjustment(p)
  \/ \E p \in Procs : AdjGet(p)
  \/ \E p \in Procs : AdjSet(p)

SpecAdjust == InitAdjust /\ [][NextAdjust]_vars

(* ------------- messages.ts: adjustUnread from two call sites ----------- *)
\* adjustUnread(d) is called by one call site, whatever the other one is doing
CallAdjustDuring(p) ==
  /\ loc[p].pc = "idle"
  /\ ops < MaxOps
  /\ \E d \in Deltas :
       loc' = [loc EXCEPT ![p] = CallAdjust([Idle EXCEPT !.op = "adjust"], d)]
  /\ ops' = ops + 1
  /\ UNCHANGED <<store, commentCache, unreadTotal, crawlerEnabled, isCrawling, now, evictions, acc, dropped>>

\* calls of adjustUnread from the two call sites, interleaved at their awaits
NextOverlap ==
  \/ \E p \in Procs : CallAdjustDuring(p)
  \/ \E p \in Procs : AdjGet(p)
  \/ \E p \in Procs : AdjSet(p)

SpecOverlap == InitAdjust /\ [][NextOverlap]_vars

(* ------------- messages.ts: setUnreadTotal with failing deliveries ----- *)
\* adjustUnread: setUnreadTotal completes, the badge rendered or not, the refresh
\* received or not
AdjSetNotify(p) == \E badgeOk, sendOk \in BOOLEAN : AdjSetWith(p, badgeOk, sendOk)

\* recomputeBadge: setUnreadTotal completes, the badge rendered or not, the refresh
\* received or not
RecomputeSetNotify(p) == \E badgeOk, sendOk \in BOOLEAN : RecomputeSetWith(p, badgeOk, sendOk)

\* the startup, then calls of adjustUnread one at a time, every delivery of
\* setUnreadTotal free to fail
NextNotify ==
  \/ StartupLoad("cmd")
  \/ StartupLoadFail("cmd")
  \/ StartupTabs("cmd")
  \/ RecomputeSetNotify("cmd")
  \/ \E p \in Procs : CallAdjustment(p)
  \/ \E p \in Procs : AdjGet(p)
  \/ \E p \in Procs : AdjSetNotify(p)

SpecNotify == InitStartup /\ [][NextNotify]_vars

(* ------------------- messages.ts: the background poll loop ------------- *)
\* the first read of the enabled flag resolves (an unset flag is written as enabled)
LoopStart(p) ==
  /\ loc[p].pc = "l_start"
  /\ loc' = [loc EXCEPT ![p] = LoopAt("l_top")]
  /\ UNCHANGED <<store, commentCache, unreadTotal, crawlerEnabled, isCrawling, now, ops, evictions, acc, dropped>>

\* the poll loop leaves its while loop through the outer catch: the async function
\* returns and nothing schedules another iteration
LoopCatch(p, from) ==
  /\ loc[p].pc = from
  /\ loc' = [loc EXCEPT ![p] = LoopAt("l_stopped")]
  /\ UNCHANGED <<store, commentCache, unreadTotal, crawlerEnabled, isCrawling, now, ops, evictions, acc, dropped>>

\* the first read of the enabled flag, or the write of its default, throws
LoopStartFail(p) == LoopCatch(p, "l_start")

\* the read at the top of the while loop resolves: a cycle is started over the cached
\* list, or waitUntilCrawlerEnabled is entered
LoopTop(p) ==
  /\ loc[p].pc = "l_top"
  /\ IF crawlerEnabled
     THEN IF isCrawling
          THEN /\ ops < MaxOps
               /\ loc' = [loc EXCEPT ![p] = Finish(Idle, "busy")]
               /\ ops' = ops + 1
               /\ UNCHANGED <<store, commentCache, unreadTotal, crawlerEnabled, isCrawling, now, evictions, acc, dropped>>
          ELSE CrawlCall(p, "l_top")
     ELSE /\ loc' = [loc EXCEPT ![p] = LoopAt("l_wait_read")]
          /\ UNCHANGED <<store, commentCache, unreadTotal, crawlerEnabled, isCrawling, now, ops, evictions, acc, dropped>>

\* the read at the top of the while loop throws
LoopTopFail(p) == LoopCatch(p, "l_top")

\* a waitUntilCrawlerEnabled that registers the change listener without looking at the
\* value it read
WaitRead_mut(p) ==
  /\ loc[p].pc = "l_wait_read"
  /\ loc' = [loc EXCEPT ![p] = LoopAt("l_waiting")]
  /\ UNCHANGED <<store, commentCache, unreadTotal, crawlerEnabled, isCrawling, now, ops, evictions, acc, dropped>>

\* waitUntilCrawlerEnabled: its read resolves; it returns if the flag is on, else it
\* registers the change listener and waits
WaitRead(p) ==
  /\ loc[p].pc = "l_wait_read"
  /\ loc' = [loc EXCEPT ![p] = LoopAt(IF crawlerEnabled THEN "l_top" ELSE "l_waiting")]
  /\ UNCHANGED <<store, commentCache, unreadTotal, crawlerEnabled, isCrawling, now, ops, evictions, acc, dropped>>

\* waitUntilCrawlerEnabled: its read throws
WaitReadFail(p) == LoopCatch(p, "l_wait_read")

\* the mutant sleeps the long interval only after a cycle that ran and updated nothing
LoopDelay_mut(resp) == IF resp = "zero" THEN IDLE_DELAY_MS ELSE ACTIVE_DELAY_MS

\* the interval the loop sleeps after crawlCommentsOnce returned: updatedCount === 0
\* (a cycle that updated nothing, or a call that found a cycle running) or not
LoopDelay(resp) == IF resp = "updated" THEN ACTIVE_DELAY_MS ELSE IDLE_DELAY_MS

\* crawlCommentsOnce has returned its count and the sleep that follows ends; the flag
\* is read again
LoopSleep(p) ==
  /\ loc[p].pc = "idle"
  /\ loc[p].resp \in {"zero", "updated", "busy"}
  /\ loc' = [loc EXCEPT ![p] =
              [LoopAt("l_after") EXCEPT !.resp = loc[p].resp,
                                        !.slept = LoopDelay(loc[p].resp)]]
  /\ UNCHANGED <<store, commentCache, unreadTotal, crawlerEnabled, isCrawling, now, ops, evictions, acc, dropped>>

\* the read after the sleep resolves or throws (caught): the next iteration begins
LoopAfter(p) ==
  /\ loc[p].pc = "l_after"
  /\ loc' = [loc EXCEPT ![p] = LoopAt("l_top")]
  /\ UNCHANGED <<store, commentCache, unreadTotal, crawlerEnabled, isCrawling, now, ops, evictions, acc, dropped>>

LoopSteps(p) == LoopStart(p) \/ LoopTop(p) \/ WaitRead(p) \/ LoopSleep(p) \/ LoopAfter(p)

LoopFailures(p) == LoopStartFail(p) \/ LoopTopFail(p) \/ WaitReadFail(p)

\* the background script has loaded the two records and spawned the poll loop
InitLoop ==
  /\ LET e1 == Seeded(<<"1", "1">>, NULL, 1, 1)
         e2 == Seeded(<<"1", "2">>, NULL, 0, 0)
     IN /\ store = [k \in Keys |->
                     IF k = <<"1", "1">> THEN e1 ELSE IF k = <<"1", "2">> THEN e2 ELSE NoEntry]
        /\ commentCache = <<e1, e2>>
        /\ unreadTotal = e1.unreadCount + e2.unreadCount
  /\ crawlerEnabled \in BOOLEAN
  /\ isCrawling = FALSE
  /\ now = StartTime
  /\ loc = [p \in Procs |-> IF p = "crawl" THEN LoopAt("l_start") ELSE Idle]
  /\ ops = 0
  /\ evictions = 0
  /\ acc = [k \in Keys |-> NoAcc]
  /\ dropped = [k \in Keys |-> NoDrop]

\* the poll loop and its crawl cycles, the enabled flag switched at any moment, the
\* loop's own reads of the flag allowed to fail
NextLoop ==
  \/ SetCrawlerEnabled
  \/ LoopSteps("crawl")
  \/ LoopFailures("crawl")
  \/ CrawlSteps("crawl")
  \/ AccountSteps("crawl")
  \/ PutSteps("crawl")

SpecLoop == InitLoop /\ [][NextLoop]_vars

\* the poll loop next to crawl-now commands of the popup: a call of either may find a
\* cycle of the other running
NextPoll ==
  \/ SetCrawlerEnabled
  \/ LoopSteps("crawl")
  \/ CrawlStart("cmd")
  \/ \E p \in Procs : CrawlSteps(p)
  \/ \E p \in Procs : AccountSteps(p)
  \/ \E p \in Procs : PutSteps(p)

SpecPoll == InitLoop /\ [][NextPoll]_vars

\* the poll loop with every storage call completing: what is awaited resolves, and the
\* continuation that is ready runs
LoopRuns(p) ==
  LoopSteps(p) \/ CrawlSteps(p) \/ AccountSteps(p) \/ PutSteps(p)

NextLoopLive == SetCrawlerEnabled \/ LoopRuns("crawl")

SpecLoopLive == InitLoop /\ [][NextLoopLive]_vars /\ WF_vars(LoopRuns("crawl"))

(* ========================= the store's contract ======================== *)
\* the key a put of call site p writes
PutKey(p) == getCommentKey(loc[p].entry)

\* the persisted record is strictly later than the incoming entry
PersistedIsNewer(p) ==
  /\ store[PutKey(p)] # NoEntry
  /\ loc[p].entry.updatedAt # NULL
  /\ store[PutKey(p)].updatedAt > loc[p].entry.updatedAt

\* C1 (freshness law): when the put reads a persisted record whose updatedAt is
\* strictly later than the incoming entry's, it returns false in that very step
\* and the persisted records are left as they were.
C1_FreshnessLaw ==
  [][\A p \in Procs :
       (PutGet(p) /\ PersistedIsNewer(p)) =>
         /\ store' = store
         /\ loc'[p].pc = "idle"
         /\ loc'[p].resp = "fail"
         /\ loc'[p].lastPut = "stale"]_vars

\* an older write was submitted after a newer one was persisted, and was rejected
C1_Witness ==
  \E p \in Procs, k \in Keys :
    /\ loc[p].pc = "idle" /\ loc[p].lastPut = "stale"
    /\ store[k] # NoEntry /\ store[k].updatedAt > StartTime

\* C2 (accept path): a put whose read finds no record, or a record or an entry
\* without updatedAt, or a persisted updatedAt not strictly later than the incoming
\* one, builds the incoming entry with version = read version + 1 (1 without a
\* record) and updatedAt = the clock at that moment; its write persists exactly
\* that record and the put returns true.
C2_AcceptPath ==
  [][\A p \in Procs :
       LET l == loc[p]
           cur == store[PutKey(p)]
           accepted == \/ cur = NoEntry
                       \/ cur.updatedAt = NULL
                       \/ l.entry.updatedAt = NULL
                       \/ cur.updatedAt <= l.entry.updatedAt
       IN /\ (PutGet(p) /\ accepted) =>
               /\ loc'[p].pc = "put_set"
               /\ loc'[p].toSave.version = (IF cur = NoEntry THEN 1 ELSE cur.version + 1)
               /\ loc'[p].toSave.updatedAt = now
               /\ loc'[p].toSave.resCount = l.entry.resCount
               /\ loc'[p].toSave.unreadCount = l.entry.unreadCount
               /\ loc'[p].toSave.postedAt = l.entry.postedAt
               /\ getCommentKey(loc'[p].toSave) = PutKey(p)
          /\ PutSet(p) =>
               /\ store'[PutKey(p)] = l.toSave
               /\ \A k \in Keys \ {PutKey(p)} : store'[k] = store[k]
               /\ loc'[p].resp = "ok"
               /\ loc'[p].lastPut = "true"]_vars

\* a put accepted an entry whose updatedAt equals the persisted one
C2_Witness ==
  \E p \in Procs :
    /\ loc[p].pc = "put_set"
    /\ loc[p].current # NoEntry
    /\ loc[p].current.updatedAt = loc[p].entry.updatedAt

C5_DeltaLaw ==
  [][\A p \in Procs :
       LET l == loc[p]
           k == PutKey(p)
       IN /\ (l.op = "crawl" /\ PutSet(p)) =>
               /\ store[k] # NoEntry
               /\ store'[k].resCount = l.fetched
               /\ store'[k].unreadCount =
                    Max(0, (l.fetched - store[k].resCount) + store[k].unreadCount)
               /\ l.prev.resCount = store[k].resCount
               /\ l.prev.unreadCount = store[k].unreadCount
          /\ (l.op = "crawl" /\ AdjSet(p)) =>
               /\ store[k].unreadCount =
                    Max(0, (l.fetched - l.prev.resCount) + l.prev.unreadCount)
               /\ CacheGet(commentCache, k) = store[k]
               /\ unreadTotal' - unreadTotal = store[k].unreadCount - l.prev.unreadCount
          /\ (l.op = "crawl" /\ SaveGet(p) /\ l.delta = 0) =>
               /\ store[k].unreadCount = l.prev.unreadCount
               /\ unreadTotal' = unreadTotal]_vars

\* a reconciliation that found new replies on top of unread ones is being accounted
C5_Witness ==
  \E p \in Procs :
    /\ loc[p].op = "crawl" /\ loc[p].pc = "adj_set"
    /\ loc[p].prev.unreadCount > 0
    /\ loc[p].fetched > loc[p].prev.resCount
    /\ unreadTotal > 0

\* C6 (accumulation): while no command writes an entry and no crawl sees its remote
\* count fall, its unreadCount is the unreadCount the last command wrote plus the
\* growth of replyCount since then, however many visits had no fetched count.
C6_Accumulation ==
  \A k \in Keys :
    (acc[k] # NoAcc /\ store[k] # NoEntry) =>
      store[k].unreadCount = acc[k].u0 + (store[k].resCount - acc[k].r0)

\* an entry with unread replies gained more after a visit without a count
C6_Witness ==
  \E k \in Keys :
    /\ acc[k] # NoAcc /\ acc[k].missed /\ acc[k].u0 > 0
    /\ store[k] # NoEntry
    /\ store[k].resCount > acc[k].r0
    /\ AllIdle

\* C7 (non-negativity): every persisted and every cached entry has
\* unreadCount >= 0 and replyCount >= 0.
C7_NonNegative ==
  /\ \A k \in Keys :
       store[k] # NoEntry => store[k].unreadCount >= 0 /\ store[k].resCount >= 0
  /\ \A i \in 1 .. Len(commentCache) :
       commentCache[i].unreadCount >= 0 /\ commentCache[i].resCount >= 0

\* a reconciliation persisted an entry whose remote count fell below the stored one
\* while nothing was unread
C7_Witness ==
  \E p \in Procs :
    /\ loc[p].op = "crawl" /\ loc[p].pc = "save_get"
    /\ loc[p].fetched < loc[p].prev.resCount
    /\ loc[p].prev.unreadCount = 0
    /\ store[PutKey(p)] # NoEntry
    /\ store[PutKey(p)].unreadCount = 0

\* C8 as claimed: the stored unreadCount of an entry gets smaller only when
\* clear-unread writes 0.
C8_OnlyClearLowers ==
  [][\A k \in Keys :
       (store[k] # NoEntry /\ store'[k] # NoEntry
        /\ store'[k].unreadCount < store[k].unreadCount) =>
         \E p \in Procs :
           PutSet(p) /\ PutKey(p) = k /\ loc[p].op = "clear"
           /\ store'[k].unreadCount = 0]_vars

\* C8 (amended): with operations running one at a time, the stored unreadCount of
\* an entry gets smaller only when clear-unread writes 0, when an upsert of the
\* key writes its payload's unreadCount, or when a reconciliation that fetched
\* fewer replies than stored writes max(0, unreadCount - the fall).
C8_LoweredOnlyBy ==
  [][\A k \in Keys :
       (store[k] # NoEntry /\ store'[k] # NoEntry
        /\ store'[k].unreadCount < store[k].unreadCount) =>
         \E p \in Procs :
           /\ PutSet(p) /\ PutKey(p) = k
           /\ \/ loc[p].op = "clear" /\ store'[k].unreadCount = 0
              \/ loc[p].op = "upsert"
                 /\ store'[k].unreadCount = loc[p].entry.unreadCount
              \/ loc[p].op = "crawl"
                 /\ loc[p].fetched < store[k].resCount
                 /\ store'[k].unreadCount =
                      Max(0, store[k].unreadCount - (store[k].resCount - loc[p].fetched))]_vars

\* a reconciliation that saw the count fall has lowered an entry's unreadCount
\* without clearing it
C8_Witness ==
  \E p \in Procs :
    /\ loc[p].op = "crawl" /\ loc[p].pc = "save_get"
    /\ loc[p].fetched < loc[p].prev.resCount
    /\ store[PutKey(p)] # NoEntry
    /\ store[PutKey(p)].unreadCount < loc[p].prev.unreadCount
    /\ store[PutKey(p)].unreadCount > 0

\* C9 (persist, then account): the crawl engine calls adjust only after its put
\* returned true and the saved entry was read back, and then with newUnread -
\* previousUnread; a put that is rejected as stale or runs out of attempts leads
\* straight to the inter-entry delay, the total untouched; a saved entry with a
\* changed unreadCount always leads to adjust.
C9_PersistThenAccount ==
  [][\A p \in Procs :
       LET l == loc[p]
       IN l.op = "crawl" =>
            /\ (l.pc # "adj_get" /\ loc'[p].pc = "adj_get") =>
                 /\ l.pc \in {"save_get", "evict_del"}
                 /\ l.lastPut = "true"
                 /\ store[PutKey(p)] # NoEntry \/ l.saved # NoEntry
                 /\ loc'[p].adjDelta = l.entry.unreadCount - l.prev.unreadCount
                 /\ loc'[p].adjDelta # 0
            /\ (l.pc \in {"put_get", "put_set"} /\ loc'[p].pc \notin {"put_get", "put_set", "put_sleep", "save_get"}) =>
                 /\ loc'[p].pc = "c_sleep"
                 /\ loc'[p].lastPut \in {"stale", "exhausted"}
                 /\ loc'[p].updatedCount = l.updatedCount
                 /\ unreadTotal' = unreadTotal
                 /\ store' = store
            /\ (l.pc \in {"save_get", "evict_del"} /\ loc'[p].pc \notin {"save_get", "evict_del"}
                /\ l.entry.unreadCount # l.prev.unreadCount
                /\ IF l.pc = "save_get" THEN store[PutKey(p)] # NoEntry ELSE l.saved # NoEntry) =>
                 loc'[p].pc = "adj_get"
            /\ (l.pc = "adj_set" /\ loc'[p].pc # "adj_set") =>
                 /\ loc'[p].pc = "c_sleep"
                 /\ loc'[p].updatedCount = l.updatedCount + 1]_vars

\* a reconciliation with a changed unreadCount had its put rejected as stale
C9_Witness ==
  \E p \in Procs :
    /\ loc[p].op = "crawl" /\ loc[p].pc = "c_sleep"
    /\ loc[p].lastPut = "stale"
    /\ unreadTotal = SumUnread(commentCache)

(* ===================== the unread accounter's contract ================= *)
\* C10 (total equals sum): with commands and crawl cycles running one at a time,
\* no storage failure and no eviction so far, whenever nothing is in flight the
\* stored total is the sum of unreadCount over the cached entries.
C10_TotalIsSum ==
  (AllIdle /\ evictions = 0) => unreadTotal = SumUnread(commentCache)

\* two tracked entries, unread replies among them, nothing in flight
C10_Witness ==
  /\ AllIdle /\ evictions = 0
  /\ Len(commentCache) = 2
  /\ unreadTotal >= 2

(* ======================= the crawl cycle's contract ==================== *)
\* call site p is inside a crawl cycle
Running(p) == loc[p].op = "crawl" /\ loc[p].pc # "idle"

\* C11 (overlap guard): at most one call site is inside a crawl cycle and the
\* flag is set exactly while one is; a call of crawlCommentsOnce made while a
\* cycle runs returns 0 in that same step, with the records, the cache, the
\* total and the flag left as they were and nothing awaited.
C11_OverlapGuard ==
  [][/\ \A p, q \in Procs : (Running(p) /\ Running(q)) => p = q
     /\ isCrawling <=> \E p \in Procs : Running(p)
     /\ \A p, q \in Procs :
          (p # q /\ Running(q) /\ loc[p].pc = "idle" /\ loc'[p] # loc[p]) =>
            /\ ~Running(p)'
            /\ (loc'[p].op = "none" /\ loc'[p].resp = "busy") =>
                 /\ CrawlBusy(p)
                 /\ loc'[p].pc = "idle"
                 /\ loc'[q] = loc[q]
                 /\ isCrawling'
                 /\ UNCHANGED <<store, commentCache, unreadTotal, crawlerEnabled>>
     /\ \A p \in Procs : (CrawlStart(p) \/ CrawlBusy(p)) =>
          (loc'[p].resp = "busy" <=> isCrawling)]_vars

\* a call arrived while the other call site's cycle was awaiting a fetch, and returned 0
C11_Witness ==
  \E p, q \in Procs :
    /\ p # q
    /\ Running(q) /\ loc[q].pc = "c_fetch"
    /\ loc[p].pc = "idle" /\ loc[p].resp = "busy"
    /\ isCrawling

(* ===================== the capacity eviction's contract ================ *)
\* call site p is inside saveComment
InSave(p) == loc[p].pc \in {"put_get", "put_set", "put_sleep", "save_get", "evict_del"}

\* saveComment of call site p returns in this step
SaveCompletes(p) ==
  /\ loc[p].pc \in {"save_get", "evict_del"}
  /\ loc'[p].pc \notin {"save_get", "evict_del"}

\* no cached entry has an earlier updatedAt than the entry of key x
IsOldest(c, x) == \A i \in 1 .. Len(c) : CacheGet(c, x).updatedAt <= c[i].updatedAt

\* a successful save of a new key at exactly MAX_ENTRIES tracked entries selects
\* one entry, the oldest, never the new one; the selected entry is deleted from
\* the store and the cache and nothing else is
EvictsOldest(p) ==
  LET k == PutKey(p)
  IN /\ (/\ SaveGet(p)
         /\ Len(commentCache) = MAX_ENTRIES
         /\ CacheIndex(commentCache, k) = 0
         /\ store[k] # NoEntry) =>
          \E x \in Keys :
            /\ x # k
            /\ loc'[p].pc = "evict_del"
            /\ loc'[p].targets = <<x>>
            /\ IsOldest(commentCache', x)
            /\ CacheGet(commentCache', k) = store[k]
            /\ Len(commentCache') = MAX_ENTRIES + 1
     /\ EvictDel(p) =>
          LET x == Head(loc[p].targets)
          IN /\ store'[x] = NoEntry
             /\ CacheIndex(commentCache', x) = 0
             /\ \A y \in Keys \ {x} :
                  store'[y] = store[y] /\ CacheGet(commentCache', y) = CacheGet(commentCache, y)
     /\ (/\ EvictDel(p)
         /\ Len(loc[p].targets) = 1
         /\ \A q \in Procs \ {p} : ~InSave(q)
         /\ Len(commentCache) = MAX_ENTRIES + 1) =>
          Len(commentCache') = MAX_ENTRIES

\* C12 as claimed: the capacity law, and after any saveComment completes the
\* entry count is at most the maximum.
C12_CountAtMostMax ==
  [][\A p \in Procs :
       /\ EvictsOldest(p)
       /\ SaveCompletes(p) => Len(commentCache') <= MAX_ENTRIES]_vars

\* ---------------------------------------------------------------------------------
\* C13: cooperative cancellation. The enabled flag is read before each entry and again
\* after each entry's delay; a read that finds it false ends the cycle there: the call
\* returns the count of entries updated so far (0 when the first check already fails),
\* the in-progress flag is cleared, and nothing is fetched, written or accounted by
\* that step. A cycle ends nowhere but at one of these two checks, and an entry's
\* fetch only ever begins from a check that found the flag true.
AtCheck(p) == loc[p].op = "crawl" /\ loc[p].pc \in {"c_enabled", "c_enabled2"}

C13_CooperativeCancel ==
  [][\A p \in Procs :
       /\ (AtCheck(p) /\ loc'[p] # loc[p] /\ ~crawlerEnabled) =>
            /\ loc'[p] = Finish(loc[p], IF loc[p].updatedCount > 0 THEN "updated" ELSE "zero")
            /\ ~isCrawling'
            /\ UNCHANGED <<store, commentCache, unreadTotal, crawlerEnabled>>
            /\ (loc[p].pc = "c_enabled" /\ loc[p].idx = 1 => loc'[p].resp = "zero")
       /\ (Running(p) /\ loc'[p].pc = "idle") => AtCheck(p)
       /\ (loc'[p].op = "crawl" /\ loc'[p].pc = "c_fetch" /\ loc[p].pc # "c_fetch") =>
            /\ loc[p].pc = "c_enabled"
            /\ crawlerEnabled
       /\ (Running(p) /\ loc'[p].op = "crawl" /\ loc'[p].idx # loc[p].idx) =>
            /\ loc[p].pc = "c_enabled2"
            /\ crawlerEnabled
            /\ loc'[p].idx = loc[p].idx + 1]_vars

\* the flag was turned off while the first of two entries was being reconciled: the
\* cycle stands at the check after the delay with one entry updated and one left
C13_Witness ==
  \E p \in Procs :
    /\ loc[p].op = "crawl"
    /\ loc[p].pc = "c_enabled2"
    /\ loc[p].idx = 1
    /\ Len(loc[p].list) = 2
    /\ loc[p].updatedCount = 1
    /\ ~crawlerEnabled
    /\ isCrawling

\* ---------------------------------------------------------------------------------
\* C14: no hard preemption. Between the check before an entry and the check after its
\* delay a cycle never looks at the enabled flag: with the flag off, the awaited fetch
\* still resolves into the write of the fetched count, the write into the save, the
\* save into the accounting of the delta, and the cycle stays on the same entry and
\* keeps running until it reaches the delay that precedes the next check.
MidEntry(p) ==
  /\ loc[p].op = "crawl"
  /\ loc[p].pc \in {"c_fetch", "put_get", "put_set", "save_get", "adj_get", "adj_set"}

C14_NoPreemption ==
  [][\A p \in Procs :
       (MidEntry(p) /\ ~crawlerEnabled /\ loc'[p] # loc[p]) =>
         /\ loc'[p].op = "crawl"
         /\ loc'[p].pc \in {"put_get", "put_set", "save_get", "adj_get", "adj_set", "c_sleep"}
         /\ isCrawling'
         /\ loc'[p].idx = loc[p].idx
         /\ (loc[p].pc = "c_fetch" /\ loc'[p].pc # "c_sleep") =>
              /\ loc'[p].pc = "put_get"
              /\ loc'[p].entry.resCount = loc'[p].fetched
              /\ loc'[p].fetched # NULL
         /\ (loc[p].pc = "put_set" /\ loc'[p].pc # "c_sleep") =>
              /\ loc'[p].pc = "save_get"
              /\ store'[getCommentKey(loc[p].entry)].resCount = loc[p].fetched
         /\ loc[p].pc = "save_get" =>
              /\ CacheGet(commentCache', getCommentKey(loc[p].entry)).resCount = loc[p].fetched
              /\ IF loc[p].delta # 0
                 THEN loc'[p].pc = "adj_get" /\ loc'[p].adjDelta = loc[p].delta
                 ELSE /\ loc'[p].pc = "c_sleep"
                      /\ loc'[p].updatedCount = loc[p].updatedCount + 1
         /\ loc[p].pc = "adj_get" =>
              /\ loc'[p].pc = "adj_set"
              /\ loc'[p].adjDelta = loc[p].delta
         /\ loc[p].pc = "adj_set" =>
              /\ unreadTotal' = Max(0, loc[p].adjCur + loc[p].delta)
              /\ loc'[p].pc = "c_sleep"
              /\ loc'[p].updatedCount = loc[p].updatedCount + 1]_vars

\* the flag is off, and the first entry's new count and unread are persisted and its
\* delta is being written to the total
C14_Witness ==
  \E p \in Procs :
    /\ loc[p].op = "crawl"
    /\ loc[p].pc = "adj_set"
    /\ loc[p].idx = 1
    /\ ~crawlerEnabled
    /\ loc[p].delta # 0
    /\ store[getCommentKey(loc[p].entry)].resCount = loc[p].fetched

\* ---------------------------------------------------------------------------------
\* C15: a fetch that resolves with null leaves the entry's record, the cache and the
\* unread total as they were, does not count the entry as updated, and sends the cycle
\* into the per-entry delay; after the delay and a flag check that reads true the
\* cycle goes on with the next entry of its list.
C15_NullFetch ==
  [][\A p \in Procs :
       /\ CFetchWith(p, NULL) =>
            /\ UNCHANGED <<store, commentCache, unreadTotal, isCrawling>>
            /\ loc'[p].pc = "c_sleep"
            /\ loc'[p].updatedCount = loc[p].updatedCount
            /\ loc'[p].idx = loc[p].idx
            /\ loc'[p].list = loc[p].list
       /\ (loc[p].op = "crawl" /\ loc[p].lastFetch = "null" /\ loc'[p] # loc[p]) =>
            /\ loc[p].pc \in {"c_sleep", "c_enabled2"}
            /\ UNCHANGED <<store, commentCache, unreadTotal>>
            /\ loc[p].pc = "c_sleep" => loc'[p].pc = "c_enabled2"
            /\ (loc[p].pc = "c_enabled2" /\ crawlerEnabled /\ loc[p].idx < Len(loc[p].list)) =>
                 /\ loc'[p].pc = "c_enabled"
                 /\ loc'[p].idx = loc[p].idx + 1
                 /\ loc'[p].updatedCount = loc[p].updatedCount]_vars

\* the fetch of the first of two entries came back null: the cycle is in the delay with
\* nothing counted, and both records are the ones the cycle started with
C15_Witness ==
  \E p \in Procs :
    /\ loc[p].op = "crawl"
    /\ loc[p].pc = "c_sleep"
    /\ loc[p].lastFetch = "null"
    /\ loc[p].idx = 1
    /\ Len(loc[p].list) = 2
    /\ loc[p].updatedCount = 0
    /\ \A i \in 1 .. 2 : /\ loc[p].list[i] = commentCache[i]
                         /\ store[getCommentKey(commentCache[i])] = commentCache[i]

\* ---------------------------------------------------------------------------------
\* C16: stale-skip policy. The age of the entry the check before the fetch looks at
\* (the cached record of the list entry), in days.
HasAge(p) == CacheGet(commentCache, getCommentKey(loc[p].list[loc[p].idx])).postedAt # NULL

Age(p) == now - CacheGet(commentCache, getCommentKey(loc[p].list[loc[p].idx])).postedAt

\* the check before an entry found the flag on and went on to skip or to fetch
Checked(p) == CEnabled(p) /\ crawlerEnabled

Skipped(p) == loc'[p].pc = "c_sleep"

Fetching(p) == loc'[p].pc = "c_fetch"

\* C16 as stated: an entry is skipped exactly when its age exceeds the threshold, and
\* is fetched when its age is at or below the threshold or it has no postedAt.
C16_SkipIffExceeds ==
  [][\A p \in Procs :
       Checked(p) =>
         /\ Skipped(p) <=> (HasAge(p) /\ Age(p) > SKIP_AFTER_DAYS)
         /\ Fetching(p) <=> (~HasAge(p) \/ Age(p) <= SKIP_AFTER_DAYS)]_vars

\* C16 amended: an entry is skipped exactly when its age is at least the threshold, a
\* skipped entry is not fetched and its record, the cache and the total are unchanged,
\* and an entry whose age is below the threshold or that has no postedAt is fetched.
C16_SkipIffAtLeast ==
  [][\A p \in Procs :
       /\ Checked(p) =>
            /\ Skipped(p) <=> (HasAge(p) /\ Age(p) >= SKIP_AFTER_DAYS)
            /\ Fetching(p) <=> (~HasAge(p) \/ Age(p) < SKIP_AFTER_DAYS)
            /\ Skipped(p) \/ Fetching(p)
            /\ UNCHANGED <<store, commentCache, unreadTotal>>
            /\ Skipped(p) => /\ loc'[p].lastFetch = "none"
                             /\ loc'[p].updatedCount = loc[p].updatedCount
       /\ (loc[p].op = "crawl" /\ loc[p].pc \in {"c_sleep", "c_enabled2"}
             /\ loc[p].lastFetch = "none" /\ loc'[p] # loc[p]) =>
            /\ UNCHANGED <<store, commentCache, unreadTotal>>
            /\ loc'[p].pc \in {"c_enabled2", "c_enabled", "idle"}]_vars

\* an entry whose age is exactly the threshold has been skipped: the cycle is in the
\* delay without having fetched it, and its record is as the cycle found it
C16_Witness ==
  \E p \in Procs :
    /\ loc[p].op = "crawl"
    /\ loc[p].pc = "c_sleep"
    /\ loc[p].lastFetch = "none"
    /\ HasAge(p)
    /\ Age(p) = SKIP_AFTER_DAYS
    /\ store[getCommentKey(loc[p].list[loc[p].idx])] = loc[p].list[loc[p].idx]

\* ---------------------------------------------------------------------------------
\* C17: sequential processing. A cycle walks its list from the first entry, one index
\* at a time; the fetch of an entry begins only from the check before that entry; the
\* index moves only at the check after the delay, the delay begins only when the
\* entry's reconciliation has ended (skip, fetch without change, write, save or
\* accounting), and the list does not change during the cycle. No two fetches of the
\* crawl engine are ever in flight together.
FetchInFlight(p) == loc[p].op = "crawl" /\ loc[p].pc = "c_fetch"

C17_Sequential ==
  [][/\ \A p, q \in Procs : (FetchInFlight(p) /\ FetchInFlight(q)) => p = q
     /\ \A p \in Procs :
          /\ (~Running(p) /\ loc'[p].op = "crawl") =>
               /\ loc'[p].idx = 1
               /\ loc'[p].pc = "c_enabled"
               /\ loc'[p].list = commentCache
          /\ (Running(p) /\ loc'[p].op = "crawl") =>
               /\ loc'[p].list = loc[p].list
               /\ loc'[p].idx \in {loc[p].idx, loc[p].idx + 1}
               /\ loc'[p].idx <= Len(loc[p].list)
               /\ loc'[p].idx # loc[p].idx =>
                    loc[p].pc = "c_enabled2" /\ loc'[p].pc = "c_enabled"
          /\ (loc'[p].pc = "c_fetch" /\ loc[p].pc # "c_fetch") =>
               /\ loc[p].pc = "c_enabled"
               /\ loc'[p].idx = loc[p].idx
               /\ getCommentKey(loc'[p].prev) = getCommentKey(loc[p].list[loc[p].idx])
          /\ (loc[p].op = "crawl" /\ loc'[p].pc = "c_enabled2" /\ loc[p].pc # "c_enabled2") =>
               loc[p].pc = "c_sleep"
          /\ (loc[p].op = "crawl" /\ loc'[p].pc = "c_sleep" /\ loc[p].pc # "c_sleep") =>
               loc[p].pc \in {"c_enabled", "c_fetch", "put_get", "put_set", "save_get",
                              "adj_set"}]_vars

\* the second entry's fetch is in flight after the first entry was written, saved and
\* counted
C17_Witness ==
  \E p \in Procs :
    /\ FetchInFlight(p)
    /\ loc[p].idx = 2
    /\ loc[p].updatedCount = 1
    /\ getCommentKey(loc[p].prev) = getCommentKey(loc[p].list[2])
    /\ CacheGet(commentCache, getCommentKey(loc[p].list[1])) # loc[p].list[1]

\* ---------------------------------------------------------------------------------
\* C18: a dropped delta is re-attempted. When the save of a changed entry fails in a
\* crawl cycle (every attempt of the write failed, or the re-read after the write
\* threw), the cache and the total are unchanged and the cached entry still has the
\* counts the cycle started from; the next fetch of that entry that returns the same
\* count builds the same unreadCount and the same delta; and when that save succeeds
\* the delta is handed to adjustUnread, whose write adds it to the total it read, once:
\* the total changes at no other step of a cycle.
DropsDelta(p) ==
  /\ loc[p].op = "crawl"
  /\ loc[p].pc \in {"put_get", "put_set", "save_get"}
  /\ dropped'[getCommentKey(loc[p].entry)] # dropped[getCommentKey(loc[p].entry)]
  /\ dropped'[getCommentKey(loc[p].entry)] # NoDrop

\* the fetch in flight is for a key whose last save was lost
Retrying(p) == loc[p].op = "crawl" /\ dropped[getCommentKey(loc[p].prev)] # NoDrop

C18_DroppedDeltaRetried ==
  [][/\ \A p \in Procs :
          /\ DropsDelta(p) =>
               /\ UNCHANGED <<commentCache, unreadTotal>>
               /\ CacheGet(commentCache, getCommentKey(loc[p].entry)).resCount = loc[p].prev.resCount
               /\ CacheGet(commentCache, getCommentKey(loc[p].entry)).unreadCount
                    = loc[p].prev.unreadCount
               /\ loc'[p].pc = "c_sleep"
               /\ loc'[p].updatedCount = loc[p].updatedCount
          /\ (loc[p].pc = "c_fetch" /\ Retrying(p)
                /\ CFetchWith(p, dropped[getCommentKey(loc[p].prev)].resCount)) =>
               /\ loc'[p].pc = "put_get"
               /\ loc'[p].entry.resCount = dropped[getCommentKey(loc[p].prev)].resCount
               /\ loc'[p].entry.unreadCount = dropped[getCommentKey(loc[p].prev)].unreadCount
               /\ loc'[p].delta = dropped[getCommentKey(loc[p].prev)].delta
          /\ (loc[p].op = "crawl" /\ loc[p].pc = "save_get" /\ commentCache' # commentCache) =>
               /\ CacheGet(commentCache', getCommentKey(loc[p].entry)).unreadCount
                    = loc[p].entry.unreadCount
               /\ IF loc[p].delta # 0
                  THEN loc'[p].pc = "adj_get" /\ loc'[p].adjDelta = loc[p].delta
                  ELSE loc'[p].pc = "c_sleep"
          /\ (loc[p].op = "crawl" /\ loc[p].pc = "adj_set" /\ unreadTotal' # unreadTotal) =>
               /\ unreadTotal' = Max(0, loc[p].adjCur + loc[p].delta)
               /\ loc'[p].pc = "c_sleep"
               /\ loc'[p].adjDelta = 0
     /\ unreadTotal' # unreadTotal => \E p \in Procs : loc[p].pc = "adj_set"]_vars

\* a second cycle fetched the count whose save was lost in the first, computed the
\* same delta, and its write has succeeded
C18_Witness ==
  \E p \in Procs :
    /\ loc[p].op = "crawl"
    /\ loc[p].pc = "save_get"
    /\ loc[p].lastPut = "true"
    /\ dropped[getCommentKey(loc[p].entry)] # NoDrop
    /\ loc[p].fetched = dropped[getCommentKey(loc[p].entry)].resCount
    /\ loc[p].delta = dropped[getCommentKey(loc[p].entry)].delta
    /\ loc[p].delta # 0

\* ---------------------------------------------------------------------------------
\* C19: per-entry failure isolation. A failure while an entry is reconciled (a null
\* fetch, a failed attempt or the last failed attempt of the write, a throwing re-read,
\* a throwing read or write of the total, a throwing read of the flag) keeps the cycle
\* running on its list: it retries the write or goes into the entry's delay. A cycle
\* ends only at a flag check, and then with a count, never with an error; with entries
\* left it ends only when the flag is off, so every later entry is processed while the
\* flag is on.
EntryFails(p) ==
  /\ loc[p].op = "crawl"
  /\ \/ CFetchWith(p, NULL)
     \/ PutGetFail(p)
     \/ PutSetFail(p)
     \/ SaveGetFail(p)
     \/ AdjGetFail(p)
     \/ AdjSetFail(p)

C19_FailureIsolation ==
  [][\A p \in Procs :
       /\ EntryFails(p) =>
            /\ loc'[p].op = "crawl"
            /\ loc'[p].pc \in {"put_sleep", "c_sleep"}
            /\ loc'[p].pc = "put_sleep" => loc[p].attempt < MAX_RETRIES - 1
            /\ loc'[p].idx = loc[p].idx
            /\ loc'[p].list = loc[p].list
            /\ isCrawling'
       /\ (Running(p) /\ loc'[p].pc = "idle") =>
            /\ AtCheck(p)
            /\ loc'[p].resp \in {"zero", "updated"}
            /\ ~isCrawling'
            /\ (loc[p].pc = "c_enabled" \/ loc[p].idx < Len(loc[p].list)) => ~crawlerEnabled
       /\ (AtCheck(p) /\ loc'[p] # loc[p] /\ loc'[p].pc # "idle") =>
            /\ loc'[p].list = loc[p].list
            /\ loc[p].pc = "c_enabled" =>
                 loc'[p].pc \in {"c_fetch", "c_sleep"} /\ loc'[p].idx = loc[p].idx
            /\ loc[p].pc = "c_enabled2" =>
                 loc'[p].pc = "c_enabled" /\ loc'[p].idx = loc[p].idx + 1
       /\ (loc[p].op = "crawl" /\ loc[p].pc = "c_sleep" /\ loc'[p] # loc[p]) =>
            loc'[p].pc = "c_enabled2"]_vars

\* in the first cycle the save of the first entry was lost, and the second entry is
\* being fetched
C19_Witness ==
  \E p \in Procs :
    /\ FetchInFlight(p)
    /\ ops = 1
    /\ loc[p].idx = 2
    /\ loc[p].updatedCount = 0
    /\ dropped[getCommentKey(loc[p].list[1])] # NoDrop

\* ---------------------------------------------------------------------------------
\* C20: the background poll loop never stops permanently. Whatever fails during an
\* iteration, the read at the top of the loop and the read inside
\* waitUntilCrawlerEnabled included, the loop goes on to a next iteration: it is never
\* in the state in which its function has returned.
InIteration(p) ==
  \/ loc[p].pc \in {"l_top", "l_wait_read", "l_waiting", "l_after"}
  \/ Running(p)
  \/ loc[p].pc = "idle" /\ loc[p].resp # "none"

C20_LoopNeverStops ==
  [][\A p \in Procs : InIteration(p) => loc'[p].pc # "l_stopped"]_vars

\* ---------------------------------------------------------------------------------
\* C21: disabled means blocked, not polling. The poll loop starts a cycle, and a cycle
\* begins a fetch, only at a step that finds the enabled flag on; the loop leaves
\* waitUntilCrawlerEnabled only when the flag is on; and whenever the loop is in the
\* wait (reading the flag, or with its listener registered) or has just been woken and
\* the flag is on, a crawl cycle is eventually started unless the flag is switched off
\* again first (or the bound on operations is reached).
InWait(p) == loc[p].op = "loop" /\ loc[p].pc \in {"l_wait_read", "l_waiting"}

Woken(p) == loc[p].op = "loop" /\ loc[p].pc = "l_top" /\ loc[p].resp = "woken"

Returned(p) == p = "crawl" /\ loc[p].pc = "idle" /\ loc[p].resp \in {"zero", "updated", "busy"}

C22_AdaptivePolling ==
  [][\A p \in Procs :
       /\ (Returned(p) /\ loc'[p] # loc[p]) =>
            /\ LoopSleep(p)
            /\ loc'[p].pc = "l_after"
            /\ loc[p].resp = "updated" => loc'[p].slept = ACTIVE_DELAY_MS
            /\ loc[p].resp \in {"zero", "busy"} => loc'[p].slept = IDLE_DELAY_MS
       /\ (loc[p].pc = "l_after" /\ loc'[p] # loc[p]) => loc'[p].pc = "l_top"
       /\ (p = "crawl" /\ ~Running(p) /\ loc'[p].op = "crawl") => loc[p].pc = "l_top"]_vars

\* the loop's call found a crawl-now cycle running, and the loop has slept the idle
\* interval
C22_Witness ==
  /\ loc["crawl"].pc = "l_after"
  /\ loc["crawl"].resp = "busy"
  /\ loc["crawl"].slept = IDLE_DELAY_MS

\* ---------------------------------------------------------------------------------
\* C23: adjustUnread run alone. The step at which a call of adjustUnread returns: the
\* call itself when delta is 0, the end of setUnreadTotal otherwise; the total the call
\* found and the delta it was given.
AdjustReturns(p) ==
  /\ loc'[p] # loc[p]
  /\ loc'[p].pc = "idle"
  /\ loc[p].pc = "idle" \/ (loc[p].op = "adjust" /\ loc[p].pc = "adj_set")

AdjustDelta(p) == IF loc[p].pc = "adj_set" THEN loc[p].adjDelta ELSE 0

\* C23 as stated: adjust(delta) run alone on a stored total T leaves the total equal
\* to max(0, T + delta) and emits the changed notification, so the total is never
\* negative.
C23_AdjustClampsAndNotifies ==
  [][/\ unreadTotal >= 0 /\ unreadTotal' >= 0
     /\ \A p \in Procs :
          AdjustReturns(p) =>
            /\ unreadTotal' = Max(0, unreadTotal + AdjustDelta(p))
            /\ loc'[p].refresh # "none"
            /\ loc'[p].badge # "none"]_vars

\* C23 amended: adjust(delta) with delta # 0 run alone on a stored total T leaves the
\* total equal to max(0, T + delta), renders the badge and sends the refresh
\* notification; adjust(0) returns at once, leaving the total as it is and notifying
\* nobody; the total is never negative.
C23_AdjustClamps ==
  [][/\ unreadTotal >= 0 /\ unreadTotal' >= 0
     /\ \A p \in Procs :
          /\ (loc[p].op = "adjust" /\ loc[p].pc = "adj_set") =>
               loc[p].adjCur = unreadTotal /\ loc[p].adjDelta # 0
          /\ AdjustReturns(p) =>
               /\ unreadTotal' = Max(0, unreadTotal + AdjustDelta(p))
               /\ loc'[p].resp = "ok"
               /\ IF AdjustDelta(p) # 0
                  THEN loc'[p].refresh = "sent" /\ loc'[p].badge = "set"
                  ELSE /\ loc'[p].refresh = "none" /\ loc'[p].badge = "none"
                       /\ unreadTotal' = unreadTotal]_vars

\* an adjustment that took the total to 0 has returned, badge rendered and refresh sent
C23_Witness ==
  \E p \in Procs :
    /\ loc[p].pc = "idle"
    /\ loc[p].resp = "ok"
    /\ loc[p].refresh = "sent"
    /\ loc[p].badge = "set"
    /\ unreadTotal = 0

\* ---------------------------------------------------------------------------------
\* C24: the startup run alone. The step at which recomputeBadge's setUnreadTotal
\* completes, which is the end of the modelled startup.
RecomputeEnds(p) ==
  /\ loc[p].op = "startup"
  /\ loc[p].pc = "s_set"
  /\ loc'[p].pc = "idle"

\* C24: recompute sets the stored total to the sum of unreadCount over the entries in
\* the cache; at startup it runs only after the cache load has ended, so when startup
\* has completed the total is the sum over the loaded entries, whatever total was
\* stored before.
C24_RecomputeIsSum ==
  [][\A p \in Procs :
       /\ (loc[p].pc = "s_load" /\ loc'[p] # loc[p]) =>
            loc'[p].pc = "s_tabs" /\ unreadTotal' = unreadTotal
       /\ (loc[p].pc = "s_tabs" /\ loc'[p] # loc[p]) =>
            loc'[p].pc = "s_set" /\ commentCache' = commentCache
       /\ RecomputeEnds(p) =>
            /\ commentCache' = commentCache
            /\ unreadTotal' = SumUnread(commentCache)
            /\ loc'[p].resp = "ok"]_vars

\* startup has completed over two loaded entries whose unread counts add up to more
\* than any total that was stored before
C24_Witness ==
  /\ loc["cmd"].pc = "idle"
  /\ loc["cmd"].resp = "ok"
  /\ Len(commentCache) = 2
  /\ unreadTotal = 2 * MaxCount
  /\ unreadTotal = SumUnread(commentCache)

\* ---------------------------------------------------------------------------------
\* C29: the cache load over any persisted content. A persisted value that decodes as
\* a comment entry, the step at which the load ends, and the keys under which valid
\* records are persisted.
Decodable(v) == v \notin {NoEntry, BadRecord, NullRecord}

LoadEnds(p) ==
  /\ loc[p].op = "startup"
  /\ loc[p].pc = "s_load"
  /\ loc'[p].pc = "s_tabs"

ValidKeys == {k \in Keys : Decodable(store[k])}

\* C29: a bad record never aborts loadAll or the cache load: when the scan succeeds
\* the cache holds exactly the decodable records persisted under two-part keys, the
\* undecodable ones and the ones under other keys being skipped; when the scan itself
\* fails the cache is empty and nothing is raised.
C29_BadRecordSkipped ==
  [][\A p \in Procs :
       LoadEnds(p) =>
         IF loc'[p].resp = "scan_failed"
         THEN commentCache' = <<>>
         ELSE /\ \A k \in ValidKeys : CacheGet(commentCache', k) = store[k]
              /\ Len(commentCache') = Cardinality(ValidKeys)]_vars

\* ---------------------------------------------------------------------------------
\* C30: the step at which a setUnreadTotal ends with a delivery that failed, and the
\* total that call was to store.
DeliveryFailed(p) ==
  /\ loc[p].pc \in {"adj_set", "s_set"}
  /\ loc'[p].pc = "idle"
  /\ loc'[p].badge = "failed" \/ loc'[p].refresh = "failed"

TotalToStore(p) ==
  IF loc[p].pc = "adj_set" THEN Max(0, loc[p].adjCur + loc[p].adjDelta)
  ELSE Max(0, loc[p].totalUnread)

\* C30: when the badge update or the refresh message fails, the new total is persisted
\* all the same, adjust and recompute return without raising, and neither the store,
\* the cache nor the total is changed or put back because of the failure.
C30_BestEffortNotification ==
  [][\A p \in Procs :
       DeliveryFailed(p) =>
         /\ unreadTotal' = TotalToStore(p)
         /\ loc'[p].resp = "ok"
         /\ store' = store
         /\ commentCache' = commentCache]_vars

\* an adjustment has returned normally with both deliveries failed, and the total it
\* stored is in place
C30_Witness ==
  \E p \in Procs :
    /\ loc[p].pc = "idle"
    /\ loc[p].resp = "ok"
    /\ loc[p].badge = "failed"
    /\ loc[p].refresh = "failed"
    /\ unreadTotal = 2 * MaxCount + 1

\* ---------------------------------------------------------------------------------
\* C25: the step at which saveComment's re-read of the written record resolves with a
\* record (the call then returns it, after the evictions if there are any), and the
\* steps of the put inside saveComment.
SaveRereads(p) ==
  /\ loc[p].pc = "save_get"
  /\ store[getCommentKey(loc[p].entry)] # NoEntry
  /\ \/ loc'[p].pc = "evict_del"
     \/ loc'[p].pc = "idle" /\ loc'[p].resp = "ok"
     \/ loc'[p].pc = "adj_get"
     \/ loc'[p].pc = "c_sleep" /\ loc'[p].updatedCount = loc[p].updatedCount + 1

InPut(p) == loc[p].op # "put" /\ loc[p].pc \in {"put_get", "put_set", "put_sleep"}

\* C25: a saveComment that returns an entry has cached under the entry's key the
\* record it re-read from the store after the write, so the cached version and
\* updatedAt are the store's and not the argument's; a put that is rejected as stale
\* or fails ends the call with the cache as it was.
C25_CacheHoldsReread ==
  [][\A p \in Procs :
       /\ SaveRereads(p) =>
            /\ CacheGet(commentCache', getCommentKey(loc[p].entry))
                 = store[getCommentKey(loc[p].entry)]
            /\ store' = store
            /\ loc'[p].pc = "evict_del" => loc'[p].saved = store[getCommentKey(loc[p].entry)]
       /\ (InPut(p) /\ loc'[p] # loc[p]) =>
            /\ commentCache' = commentCache
            /\ loc'[p].lastPut \in {"stale", "exhausted"} =>
                 loc'[p].pc \notin {"save_get", "evict_del"}
       /\ (loc[p].pc # "save_get" /\ loc'[p] # loc[p]) =>
            \A k \in Keys : CacheGet(commentCache', k) \in {NoEntry, CacheGet(commentCache, k)}]_vars

\* a save has cached the record the store holds for its key, whose version and
\* updatedAt differ from those of the argument it was given
C25_Witness ==
  \E p \in Procs :
    /\ loc[p].pc \in {"evict_del", "adj_get"}
    /\ loc[p].entry # NoEntry
    /\ LET k == getCommentKey(loc[p].entry)
       IN /\ CacheGet(commentCache, k) # NoEntry
          /\ CacheGet(commentCache, k) = store[k]
          /\ CacheGet(commentCache, k).version # loc[p].entry.version
          /\ CacheGet(commentCache, k).updatedAt # loc[p].entry.updatedAt

\* ---------------------------------------------------------------------------------
\* C26: an identifier that is a string of 1 to 10 digits; a message whose topicId or
\* commentNumber is missing or is not one (a remove-topic names only a topic, an
\* upsert-comment without its entry names nothing); the answers with ok = false and
\* an error message that the boundary gives.
IsId(raw) ==
  /\ raw.type = "string"
  /\ Len(raw.chars) \in 1 .. 10
  /\ \A i \in 1 .. Len(raw.chars) : raw.chars[i] \in Digits

InvalidIds(msg) ==
  \/ ~IsId(msg.topicId)
  \/ msg.type # "remove-topic" /\ ~IsId(msg.commentNumber)
  \/ msg.type = "upsert-comment" /\ ~msg.hasEntry

ErrorResponses == {"no_entry", "missing", "bad_topic", "bad_number"}

\* C26: upsert, remove-entry, remove-topic and clear-unread called with a topicId or
\* entryId that is missing or is not a string of 1 to 10 digits return ok = false with
\* an error message, leave the store, the cache and the unread total unchanged, and
\* issue no fetch.
C26_InvalidIdsRejected ==
  [][\A msg \in Messages :
       (InvalidIds(msg) /\ Route("cmd", msg)) =>
         /\ loc'["cmd"].pc = "idle"
         /\ loc'["cmd"].resp \in ErrorResponses
         /\ loc'["cmd"].lastFetch = "none"
         /\ store' = store
         /\ commentCache' = commentCache
         /\ unreadTotal' = unreadTotal]_vars

\* a command was rejected for its comment number while an entry with unread replies
\* is tracked
C26_Witness ==
  /\ loc["cmd"].pc = "idle"
  /\ loc["cmd"].resp = "bad_number"
  /\ commentCache # <<>>
  /\ unreadTotal > 0

\* ---------------------------------------------------------------------------------
\* C27: the step at which the second of two successive puts of one payload returns;
\* the frame holds the payload and what the first call returned.
SecondPutReturns(p) ==
  /\ loc[p].op = "twice"
  /\ loc[p].idx = 1
  /\ loc'[p].pc = "idle"

\* C27 as stated: after two successive puts of the same payload with the same
\* updatedAt the persisted unreadCount and replyCount are those of the payload,
\* whether the second call is rejected as stale or overwrites.
C27_TwicePersistsPayload ==
  [][\A p \in Procs :
       SecondPutReturns(p) =>
         LET k == getCommentKey(loc[p].entry)
         IN /\ store'[k] # NoEntry
            /\ store'[k].unreadCount = loc[p].entry.unreadCount
            /\ store'[k].resCount = loc[p].entry.resCount]_vars

\* C27 amended: when the first of two successive puts of the same payload has written,
\* the persisted unreadCount and replyCount are those of the payload after the second
\* call, whether it is rejected as stale or overwrites; when the first call is rejected
\* as stale, the second is rejected too and the persisted record stays the newer one.
C27_TwiceIsIdempotent ==
  [][\A p \in Procs :
       SecondPutReturns(p) =>
         LET k == getCommentKey(loc[p].entry)
         IN IF loc[p].resp = "true"
            THEN /\ loc'[p].lastPut \in {"stale", "true"}
                 /\ store[k] # NoEntry /\ store'[k] # NoEntry
                 /\ store'[k].unreadCount = loc[p].entry.unreadCount
                 /\ store'[k].resCount = loc[p].entry.resCount
                 /\ store[k].unreadCount = loc[p].entry.unreadCount
                 /\ store[k].resCount = loc[p].entry.resCount
            ELSE /\ loc[p].resp = "stale"
                 /\ loc'[p].lastPut = "stale"
                 /\ store' = store
                 /\ IsStale(store[k], loc[p].entry)]_vars

\* the second put of a payload was rejected as stale after the first had written it
\* over an older record
C27_Witness ==
  /\ loc["cmd"].pc = "idle"
  /\ loc["cmd"].lastPut = "stale"
  /\ store[<<"1", "1">>] # NoEntry
  /\ store[<<"1", "1">>].version = 2
  /\ store[<<"1", "1">>].resCount = MaxCount

\* ---------------------------------------------------------------------------------
\* C28: remove-comment run alone. The unread count the cache holds for a key, 0 when
\* the key is not tracked.
UnreadOf(k) == IF CacheGet(commentCache, k) = NoEntry THEN 0 ELSE CacheGet(commentCache, k).unreadCount

\* C28: remove-entry of a tracked key lowers the total by the entry's unreadCount and
\* removes the key from store and cache; of an absent key it changes neither store,
\* cache nor total; in both cases it answers ok = true, so a second application finds
\* the key absent and changes nothing.
C28_RemoveIdempotent ==
  [][\A p \in Procs :
       /\ (loc[p].pc = "idle" /\ loc'[p].op = "remove") =>
            IF UnreadOf(loc'[p].key) > 0
            THEN loc'[p].pc = "adj_get" /\ loc'[p].adjDelta = 0 - UnreadOf(loc'[p].key)
            ELSE loc'[p].pc = "del"
       /\ (loc[p].op = "remove" /\ loc[p].pc = "adj_set" /\ loc'[p] # loc[p]) =>
            /\ unreadTotal' = unreadTotal - UnreadOf(loc[p].key)
            /\ loc'[p].pc = "del"
       /\ (loc[p].op = "remove" /\ loc[p].pc = "del" /\ loc'[p] # loc[p]) =>
            /\ store'[loc[p].key] = NoEntry
            /\ CacheGet(commentCache', loc[p].key) = NoEntry
            /\ \A k \in Keys \ {loc[p].key} :
                 store'[k] = store[k] /\ CacheGet(commentCache', k) = CacheGet(commentCache, k)
            /\ unreadTotal' = unreadTotal
            /\ loc'[p].pc = "idle" /\ loc'[p].resp = "ok"
            /\ (store[loc[p].key] = NoEntry /\ CacheGet(commentCache, loc[p].key) = NoEntry) =>
                 store' = store /\ commentCache' = commentCache]_vars

\* a remove-entry of a tracked entry with unread replies has lowered the total to 0
\* and awaits the deletion
C28_Witness ==
  \E p \in Procs :
    /\ loc[p].op = "remove"
    /\ loc[p].pc = "del"
    /\ store[loc[p].key] # NoEntry
    /\ UnreadOf(loc[p].key) > 0
    /\ unreadTotal = 0

\* ---------------------------------------------------------------------------------
\* C31: clear-unread run alone. The replyCount the cleared entry is to carry: the
\* fetched count when the fetch returned a number, the one it had otherwise.
ClearedResCount(l) == IF l.fetched # NULL THEN l.fetched ELSE l.prev.resCount

ClearSteps(p) == loc[p].op = "clear" /\ loc'[p] # loc[p]

\* C31: clear-unread on a tracked entry with unreadCount u leaves the entry with
\* unreadCount 0, lowers the total by u, and sets replyCount to the fetched count when
\* the fetch returns a number, leaving it as it was when the fetch returns null;
\* clear-unread on a key that is not cached answers ok = false and changes neither
\* store, cache nor total.
C31_ClearUnreadAlone ==
  [][\A p \in Procs :
       /\ (loc[p].pc = "idle" /\ loc'[p].pc = "idle" /\ ops' = ops + 1
             /\ loc'[p].resp = "fail") =>
            store' = store /\ commentCache' = commentCache /\ unreadTotal' = unreadTotal
       /\ (loc[p].pc = "idle" /\ loc'[p].op = "clear") =>
            /\ loc'[p].prev # NoEntry
            /\ loc'[p].prev = CacheGet(commentCache, getCommentKey(loc'[p].prev))
       /\ (ClearSteps(p) /\ loc[p].pc = "adj_set") =>
            unreadTotal' = unreadTotal - loc[p].prev.unreadCount
       /\ (ClearSteps(p) /\ loc[p].pc # "adj_set") => unreadTotal' = unreadTotal
       /\ (ClearSteps(p) /\ loc[p].pc = "put_get" /\ loc[p].prev.unreadCount > 0) =>
            loc[p].lastPut = "none" /\ loc'[p].pc = "put_set"
       /\ (ClearSteps(p) /\ loc'[p].pc = "idle") =>
            LET k == getCommentKey(loc[p].prev)
            IN /\ loc'[p].resp = "ok"
               /\ store'[k] # NoEntry
               /\ store'[k].unreadCount = 0
               /\ store'[k].resCount = ClearedResCount(loc[p])
               /\ CacheGet(commentCache', k) = store'[k]]_vars

\* a clear-unread of an entry with unread replies has written the entry with no
\* unread and with the fetched count, which differs from the one it had
C31_Witness ==
  \E p \in Procs :
    /\ loc[p].op = "clear"
    /\ loc[p].pc = "save_get"
    /\ loc[p].prev.unreadCount > 0
    /\ loc[p].fetched # NULL
    /\ loc[p].fetched # loc[p].prev.resCount
    /\ store[getCommentKey(loc[p].prev)].unreadCount = 0
    /\ store[getCommentKey(loc[p].prev)].resCount = loc[p].fetched
    /\ unreadTotal = 0

\* ---------------------------------------------------------------------------------
\* C32: clear-unread and crawl cycles one after the other. The crawl's fetch for the
\* entry k resolves while the cache still holds what a completed clear-unread wrote for
\* it: no unread and the count c the clear stored.
VisitsCleared(p, k) ==
  /\ loc[p].op = "crawl"
  /\ loc[p].pc = "c_fetch"
  /\ loc'[p] # loc[p]
  /\ getCommentKey(loc[p].prev) = k
  /\ acc[k] # NoAcc
  /\ acc[k].u0 = 0
  /\ loc[p].prev.unreadCount = 0
  /\ loc[p].prev.resCount = acc[k].r0

\* C32: after a completed clear-unread that stored the count c, a following crawl
\* visit that observes the same count c writes nothing for the entry, leaves its
\* unreadCount at 0 and leaves the total unchanged: the visit saves only when the
\* count it fetched differs from c.
C32_UnreadStaysCleared ==
  [][\A p \in Procs : \A k \in Keys :
       VisitsCleared(p, k) =>
         /\ loc'[p].pc \in {"put_get", "c_sleep"}
         /\ loc'[p].pc = "put_get" => loc'[p].fetched # acc[k].r0
         /\ store' = store /\ commentCache' = commentCache /\ unreadTotal' = unreadTotal
         /\ loc'[p].pc = "c_sleep" =>
              /\ loc'[p].updatedCount = loc[p].updatedCount
              /\ store'[k].unreadCount = 0
              /\ CacheGet(commentCache', k).unreadCount = 0]_vars

\* a crawl visit has fetched a count for an entry that a clear-unread had cleared of
\* its unread replies, and goes on without having written anything
C32_Witness ==
  \E k \in Keys :
    /\ loc["crawl"].op = "crawl"
    /\ loc["crawl"].pc = "c_sleep"
    /\ loc["crawl"].lastFetch = "count"
    /\ loc["crawl"].lastPut = "none"
    /\ getCommentKey(loc["crawl"].list[loc["crawl"].idx]) = k
    /\ acc[k] # NoAcc
    /\ store[k].version = 2
    /\ store[k].unreadCount = 0
    /\ store[k].resCount = acc[k].r0
    /\ unreadTotal = 0

\* ---------------------------------------------------------------------------------
\* C33: remove-topic run alone. The keys the cache holds under a topic.
KeysOfTopic(t) == {k \in Keys : k[1] = t /\ CacheGet(commentCache, k) # NoEntry}

\* the keys a remove-topic in progress has yet to delete
Pending(l) == {l.targets[i] : i \in 1 .. Len(l.targets)}

TopicSteps(p) == loc[p].op = "removeTopic" /\ loc'[p] # loc[p]

\* C33: remove-topic takes as its targets exactly the cached entries of the topic,
\* deletes each of them from store and cache and nothing else, answers ok = true with
\* the number of targets as count, and lowers the total by the sum of their
\* unreadCount; when no entry has the topic it answers ok = true, count = 0 and
\* changes neither store, cache nor total.
C33_RemoveTopicAlone ==
  [][\A p \in Procs :
       /\ (RemoveTopic(p) /\ loc'[p].pc = "idle") =>
            /\ loc'[p].resp = "ok"
            /\ loc'[p].count = 0
            /\ store' = store /\ commentCache' = commentCache /\ unreadTotal' = unreadTotal
       /\ (loc[p].pc = "idle" /\ loc'[p].op = "removeTopic") =>
            /\ loc'[p].pc = "del"
            /\ \E t \in TopicIds : Pending(loc'[p]) = KeysOfTopic(t)
            /\ loc'[p].count = Cardinality(Pending(loc'[p]))
            /\ loc'[p].count = Len(loc'[p].targets)
            /\ loc'[p].count > 0
            /\ loc'[p].key = loc'[p].targets[1]
            /\ loc'[p].totalUnread =
                 SumUnread(SelectSeq(commentCache, LAMBDA e : getCommentKey(e) \in Pending(loc'[p])))
            /\ store' = store /\ commentCache' = commentCache /\ unreadTotal' = unreadTotal
       /\ (TopicSteps(p) /\ loc[p].pc = "del") =>
            /\ loc[p].key = Head(loc[p].targets)
            /\ store[loc[p].key] # NoEntry
            /\ store'[loc[p].key] = NoEntry
            /\ CacheGet(commentCache', loc[p].key) = NoEntry
            /\ \A k \in Keys \ {loc[p].key} :
                 store'[k] = store[k] /\ CacheGet(commentCache', k) = CacheGet(commentCache, k)
            /\ unreadTotal' = unreadTotal
            /\ Pending(loc'[p]) = Pending(loc[p]) \ {loc[p].key}
            /\ loc'[p].pc = "del" <=> Len(loc[p].targets) > 1
            /\ (loc'[p].pc = "adj_get") <=> (Len(loc[p].targets) = 1 /\ loc[p].totalUnread > 0)
            /\ loc'[p].pc = "adj_get" => loc'[p].adjDelta = 0 - loc[p].totalUnread
       /\ (TopicSteps(p) /\ loc[p].pc = "adj_set") =>
            unreadTotal' = unreadTotal - loc[p].totalUnread
       /\ (TopicSteps(p) /\ loc[p].pc # "del") =>
            store' = store /\ commentCache' = commentCache
       /\ (TopicSteps(p) /\ loc[p].pc # "adj_set") => unreadTotal' = unreadTotal
       /\ (TopicSteps(p) /\ loc'[p].pc # "idle") => loc'[p].count = loc[p].count
       /\ (TopicSteps(p) /\ loc'[p].pc = "idle") =>
            /\ loc'[p].resp = "ok"
            /\ loc'[p].count = loc[p].count
            /\ Pending(loc[p]) \subseteq {loc[p].key}]_vars

\* a remove-topic of a topic with two tracked entries has answered with count 2 and
\* left no entry and a total of 0
C33_Witness ==
  \E p \in Procs :
    /\ loc[p].pc = "idle"
    /\ loc[p].resp = "ok"
    /\ loc[p].count = 2
    /\ unreadTotal = 0
    /\ evictions = 0
    /\ commentCache = <<>>
    /\ \A k \in Keys : store[k] = NoEntry

\* ---------------------------------------------------------------------------------
\* C34: a call of adjustUnread stores its total while the other call site is inside
\* adjustUnread too or has completed a call since this one read the total.
AdjustWrites(p) == loc[p].op = "adjust" /\ loc[p].pc = "adj_set" /\ loc'[p] # loc[p]

\* C34: when two calls of adjustUnread overlap, each suspended between its read and
\* its write, both deltas take effect: with no clamping involved every write leaves
\* the stored total at the total stored just before it plus the call's delta, so that
\* the two calls together move a total T to T + d1 + d2.
C34_BothDeltasTakeEffect ==
  [][\A p \in Procs :
       (AdjustWrites(p) /\ loc[p].adjCur + loc[p].adjDelta >= 0
                        /\ unreadTotal + loc[p].adjDelta >= 0) =>
         unreadTotal' = unreadTotal + loc[p].adjDelta]_vars

\* ---------------------------------------------------------------------------------
\* C35: a clear-unread of the entry k has completed while the crawl cycle p, which had
\* read the entry with unread replies, was awaiting the count of k; the fetch resolves.
ClearedDuringFetch(p, k) ==
  /\ loc[p].op = "crawl"
  /\ loc[p].pc = "c_fetch"
  /\ loc'[p] # loc[p]
  /\ getCommentKey(loc[p].prev) = k
  /\ loc[p].prev.unreadCount > 0
  /\ \A q \in Procs \ {p} : loc[q].pc = "idle" /\ loc[q].resp = "ok"
  /\ store[k] # NoEntry
  /\ store[k].version > loc[p].prev.version
  /\ store[k].unreadCount = 0
  /\ CacheGet(commentCache, k) = store[k]

\* the crawl cycle p writes its record of k over the one a clear-unread has written
\* since the cycle read the entry
WritesOverCleared(p, k) ==
  /\ loc[p].op = "crawl"
  /\ loc[p].pc = "put_set"
  /\ loc'[p] # loc[p]
  /\ getCommentKey(loc[p].entry) = k
  /\ loc[p].prev.unreadCount > 0
  /\ \A q \in Procs \ {p} : loc[q].pc = "idle" /\ loc[q].resp = "ok"
  /\ store[k] # NoEntry
  /\ store[k].version > loc[p].prev.version
  /\ store[k].unreadCount = 0
  /\ CacheGet(commentCache, k) = store[k]

\* the replies that arrived after the count r was stored, when c is the count now
RepliesSince(c, r) == IF c > r THEN c - r ELSE 0

\* C35: when a clear-unread of an entry completes while a crawl visit of the same entry
\* awaits its fetch, the visit does not bring back the cleared unread: the record it
\* goes on to save, and the record it writes over the cleared one, count as unread only
\* the replies beyond the count the clear stored, and the visit leaves the total equal
\* to the sum of the entries' unreadCount.
C35_ClearSurvivesCrawl ==
  [][\A p \in Procs : \A k \in Keys :
       /\ (ClearedDuringFetch(p, k) /\ loc'[p].pc = "put_get") =>
            loc'[p].entry.unreadCount <= RepliesSince(loc'[p].fetched, store[k].resCount)
       /\ WritesOverCleared(p, k) =>
            /\ store'[k].unreadCount <= RepliesSince(loc[p].fetched, store[k].resCount)
            /\ Max(0, unreadTotal + loc[p].delta) =
                 SumUnread(commentCache) + store'[k].unreadCount]_vars

\* ---------------------------------------------------------------------------------
\* C36: entries are removed while crawl cycles run and nothing is upserted, so a key
\* that is absent from the store has been removed and is to stay absent. The crawl
\* cycle p stores the total on behalf of an entry its save found no record of.
AccountsRemoved(p) ==
  /\ loc[p].op = "crawl"
  /\ loc[p].pc = "adj_set"
  /\ loc'[p] # loc[p]
  /\ loc[p].current = NoEntry

\* C36: an entry removed while a crawl cycle is in progress is not re-created by the
\* cycle: with no upsert issued, a key absent from the store stays absent from it, a
\* key absent from the cache stays absent from it, and the cycle does not change the
\* total on behalf of an entry that was gone when it saved it.
C36_NoResurrection ==
  [][/\ \A k \in Keys :
          /\ store[k] = NoEntry => store'[k] = NoEntry
          /\ CacheGet(commentCache, k) = NoEntry => CacheGet(commentCache', k) = NoEntry
     /\ \A p \in Procs : AccountsRemoved(p) => unreadTotal' = unreadTotal]_vars

\* ---------------------------------------------------------------------------------
\* C37: the save of the command p completes with the eviction of its last target, an
\* entry with unread replies, while the total is the sum of the cached entries'
\* unreadCount.
EvictsUnread(p) ==
  /\ loc[p].pc = "evict_del"
  /\ loc'[p].pc = "idle"
  /\ Len(loc[p].targets) = 1
  /\ CacheGet(commentCache, Head(loc[p].targets)) # NoEntry
  /\ CacheGet(commentCache, Head(loc[p].targets)).unreadCount > 0
  /\ unreadTotal = SumUnread(commentCache)

\* C37: when the capacity eviction deletes an entry with unreadCount u > 0, the total
\* is lowered by u, so that when the save that triggered the eviction completes the
\* total is the sum of unreadCount over the remaining entries.
C37_EvictionLowersTotal ==
  [][\A p \in Procs :
       EvictsUnread(p) =>
         /\ unreadTotal' = unreadTotal - CacheGet(commentCache, Head(loc[p].targets)).unreadCount
         /\ unreadTotal' = SumUnread(commentCache')]_vars

\* ---------------------------------------------------------------------------------
\* C38: the persist of the upsert or clear-unread command p is rejected as stale or
\* fails after its last attempt, and the command answers ok = false.
PersistFails(p) ==
  /\ loc[p].op \in {"upsert", "clear"}
  /\ loc[p].pc \in {"put_get", "put_set"}
  /\ loc'[p].pc = "idle"
  /\ loc'[p].resp = "fail"

\* C38: when the persist of an upsert or of a clear-unread is rejected or fails, the
\* total after the command is the total before it, and the cached and the persisted
\* entry are as they were.
C38_FailedWriteKeepsTotal ==
  [][\A p \in Procs :
       PersistFails(p) =>
         /\ unreadTotal' = loc[p].before
         /\ store' = store
         /\ commentCache' = commentCache
         /\ loc[p].op = "clear" =>
              CacheGet(commentCache', getCommentKey(loc[p].prev)) = loc[p].prev]_vars

\* ---------------------------------------------------------------------------------
\* C39: the positions at which a call site awaits an operation of the store: the
\* steps of a put, the re-read of saveComment, a deletion, the scan of the startup.
StoreCalls == {"put_get", "put_set", "put_sleep", "save_get", "evict_del", "del", "s_load"}

\* no call site has a store operation in flight
Quiet == \A p \in Procs : loc[p].pc \notin StoreCalls

\* C39: in every state in which no store operation is in flight the cache holds an
\* entry for a key exactly when the store persists one, and the two records are equal.
C39_CacheMirrorsStore ==
  Quiet => \A k \in Keys : CacheGet(commentCache, k) = store[k]

\* ---------------------------------------------------------------------------------
\* C40: a crawl cycle is running at some call site
CycleRuns == \E p \in Procs : loc[p].op = "crawl"

\* C40: every started crawl cycle terminates and clears the in-progress flag, whatever
\* the fetch, the save and the adjustment do and whether the list is empty or the
\* enabled flag ends the cycle early: the flag is set exactly while a cycle runs, so a
\* request issued after the cycle's end starts a new cycle, and a set flag is
\* eventually cleared.
C40_CycleEndsIdle ==
  /\ [](isCrawling <=> CycleRuns)
  /\ isCrawling ~> ~isCrawling
  /\ [][\A p \in Procs :
          (loc[p].pc = "idle" /\ loc'[p] # loc[p] /\ ~CycleRuns /\ ops' = ops + 1
             /\ crawlerEnabled' = crawlerEnabled) =>
            loc'[p].resp # "busy"]_vars

\* a cycle over two records has ended although the save of one of its visits failed,
\* and the flag is clear
C40_Witness ==
  /\ ~isCrawling
  /\ ~CycleRuns
  /\ loc["crawl"].resp \in {"zero", "updated"}
  /\ commentCache # <<>>
  /\ \E k \in Keys : dropped[k] # NoDrop

====
